---- MODULE Spec2Model ----
(***************************************************************************)
(* Model of the mesosdef concurrent deployment engine:                     *)
(*   deploy/deploy.go  - Deployment, the per-node two-phase state machine  *)
(*   deploy/graph.go   - GraphDeployer, the worker-pool executor           *)
(*   model/graph.go    - Graph, the dependency graph the executor reads    *)
(*                                                                         *)
(* Goroutines are processes: the caller of GraphDeployer.Deploy (mainPC)   *)
(* and maxDeploy workers (workerPC).  A step of a process is the code      *)
(* between two accesses to shared state (channel operation, atomic status  *)
(* word, adapter call).  The observer of the events channel is always      *)
(* ready to receive, so a send on it is a hand-over to the observer's log. *)
(***************************************************************************)
EXTENDS Integers, Sequences, FiniteSets, TLC

\* ------------------------------------------------------------------ bounds
MaxNodes == 3
MaxWorkers == 2
MaxEdges == 4
MaxBuilds == 2
MaxGlob == 3
MaxSubject == 2
MaxCallers == 2

\* ------------------------------------------------------- program constants
\* errorsChan: make(chan error, 1)
ErrorsChanCap == 1

VARIABLES
    graph,              \* model.Graph after Build: [n, cost]
    maxDeploy,          \* GraphDeployer.maxDeploy
    eventsChanNil,      \* Deploy was called with a nil events channel
    mainPC,             \* position of the goroutine running GraphDeployer.Deploy
    deployOrder,        \* the local deployOrder of Deploy
    next,               \* index i of the enqueue loop of Deploy
    workChanClosed,     \* close(d.workChan) has run
    eventsChanClosed,   \* close(d.eventsChan) has run
    errorsChan,         \* contents of d.errorsChan
    stats,              \* GraphDeployer.stats
    result,             \* the error Deploy returned
    workerPC,           \* position of each worker goroutine
    deployment,         \* the node each worker dequeued (0: none)
    dependencies,       \* the dependencies each worker still has to wait for
    waitErr,            \* the error in flight in each worker
    status,             \* Deployment.status per node
    deployChanClosed,   \* close(d.deployChan) has run, per node
    healthyChanClosed,  \* close(d.healthyChan) has run, per node
    deployError,        \* Deployment.deployError per node
    healthyError,       \* Deployment.healthyError per node
    deployCalls,        \* history: number of adapter Deploy calls per node
    healthCalls,        \* history: number of adapter WaitUntilHealthy calls per node
    deployResult,       \* history: what the adapter's Deploy returned per node
    healthResult,       \* history: what the adapter's WaitUntilHealthy returned
    events,             \* history: the events the observer received, per node
    counted,            \* history: the counter workerMain incremented per node
    firstError,         \* history: the first error passed to sendError
    input,              \* the deployments given to the first Graph.Build
    modelGraph,         \* the model.Graph: [deployments, index, rawGraph]
    buildCalls,         \* number of calls of Build so far
    lastArg,            \* history: the deployments given to the last Build
    buildErr,           \* history: what the last Build returned
    before,             \* history: the Graph before the last Build
    answer,             \* history: the last query of the Graph and its result
    call,               \* a call of a function of the resolver: [fn, arguments]
    returned,           \* what that call returned
    callerPC,           \* position of each goroutine calling a Deployment directly
    callerErr,          \* the error in flight in each such goroutine
    lastCall,           \* history: the latest call of ready, deploy or cancel
    winners,            \* history: the calls of deploy and cancel whose swap stored
    losers,             \* history: the calls of deploy and cancel that were refused
    seenDeploy,         \* history: what WaitUntilDeployed has returned
    seenHealthy         \* history: what WaitUntilHealthy has returned

vars == <<graph, maxDeploy, eventsChanNil, mainPC, deployOrder, next, workChanClosed,
          eventsChanClosed, errorsChan, stats, result, workerPC, deployment,
          dependencies, waitErr, status, deployChanClosed, healthyChanClosed,
          deployError, healthyError, deployCalls, healthCalls, deployResult,
          healthResult, events, counted, firstError, input, modelGraph,
          buildCalls, lastArg, buildErr, before, answer, call, returned,
          callerPC, callerErr, lastCall, winners, losers, seenDeploy, seenHealthy>>

mainVars == <<mainPC, deployOrder, next, workChanClosed, eventsChanClosed, result>>
nodeVars == <<status, deployChanClosed, healthyChanClosed, deployError, healthyError>>
adapterVars == <<deployCalls, healthCalls, deployResult, healthResult>>
graphVars == <<input, modelGraph, buildCalls, lastArg, buildErr, before, answer>>
callVars == <<call, returned>>
callerVars == <<callerPC, callerErr, lastCall, winners, losers, seenDeploy, seenHealthy>>
builderVars == <<graphVars, callVars, callerVars>>
configVars == <<graph, maxDeploy, eventsChanNil, builderVars>>
execVars == <<graph, maxDeploy, eventsChanNil, mainVars, nodeVars, adapterVars,
              errorsChan, stats, workerPC, deployment, dependencies, waitErr,
              events, counted, firstError>>

\* ------------------------------------------------------------------ errors
\* An error value is the chain of its wrappings, outermost first; nil is the
\* empty chain.  Each link is <<message, node>>.
Nil == <<>>

\* fmt.Errorf("<msg> ...: %w", err)
Wrap(msg, node, err) == <<<<msg, node>>>> \o err

\* what the framework adapter returns when it fails for a node
AdapterError(node) == <<<<"framework", node>>>>

\* ------------------------------------------------------------------- graph
Workers == 1..MaxWorkers
Nodes == 1..graph.n

\* The executor is run on DAGs whose vertices are numbered so that every edge
\* i -> k (i depends on k) has k < i: every DAG is one of these up to the
\* naming of its vertices.
EdgeSlots(n) == {p \in (1..n) \X (1..n) : p[2] < p[1]}

\* every DAG of 1 to MaxNodes vertices with every assignment of costs 0
\* (deployed) and 1 (wait_for_healthy) to its edges.  Build allocates the
\* rawGraph for a list with deployments only, so a graph that is not nil has
\* a vertex.
Graphs ==
    UNION {{[nil |-> FALSE, n |-> n, cost |-> c] :
               c \in UNION {[E -> {0, 1}] : E \in SUBSET EdgeSlots(n)}} :
           n \in 1..MaxNodes}

\* every graph Build can produce on up to MaxNodes vertices with up to
\* MaxEdges edges, self-edges and cycles included
Digraphs ==
    UNION {{[nil |-> FALSE, n |-> n, cost |-> c] :
               c \in UNION {[E -> {0, 1}] :
                               E \in {F \in SUBSET ((1..n) \X (1..n)) :
                                          Cardinality(F) <= MaxEdges}}} :
           n \in 0..MaxNodes}

HasEdge(g, i, k) == <<i, k>> \in DOMAIN g.cost

\* rawGraph.Visit(v, ...): the outgoing neighbours of v
Neighbours(g, v) == {k \in 1..g.n : HasEdge(g, v, k)}

\* whether a walk of 1 to k edges leads from a to b
RECURSIVE Path(_, _, _, _)
Path(g, a, b, k) ==
    /\ k > 0
    /\ \/ HasEdge(g, a, b)
       \/ \E m \in Neighbours(g, a) : Path(g, m, b, k - 1)

\* some vertex depends on itself, directly or through others
HasCycle(g) == \E v \in 1..g.n : Path(g, v, v, g.n)

\* mutant: only a cost above 1 asks for the health wait
WaitForHealthyAboveOne(c) == c > 1

\* Graph.Dependencies: waitForHealthy := c != 0
WaitForHealthy(c) == c # 0

\* Graph.Dependencies: the outgoing neighbours with their wait_for_healthy flag
Dependencies(g, v) ==
    {[node |-> k, WaitForHealthy |-> WaitForHealthy(g.cost[<<v, k>>])] :
        k \in Neighbours(g, v)}

\* the orders in which rawGraph.Visit may enumerate a set of neighbours (the
\* edges of a vertex are kept in a Go map)
Orders(S) ==
    {s \in [1..Cardinality(S) -> S] : \A i, j \in DOMAIN s : i # j => s[i] # s[j]}

\* graph.TopSort, the loop over the queue of vertices of indegree 0: the
\* head is output, the indegree of each of its neighbours is decremented and
\* a neighbour that reaches 0 joins the queue.  ok is whether every vertex
\* was output.
RECURSIVE topsort(_, _, _, _)
topsort(g, indegree, queue, order) ==
    IF queue = <<>>
    THEN {[order |-> order, ok |-> Len(order) = g.n]}
    ELSE LET v == Head(queue)
             dec == [w \in 1..g.n |->
                        IF HasEdge(g, v, w) THEN indegree[w] - 1 ELSE indegree[w]]
         IN  UNION {topsort(g, dec,
                            Tail(queue) \o SelectSeq(visit, LAMBDA w : dec[w] = 0),
                            Append(order, v)) :
                        visit \in Orders(Neighbours(g, v))}

\* graph.TopSort(g.rawGraph): the results it can return, one for each order
\* of visiting neighbours; the queue starts with the vertices of indegree
\* 0 in ascending order.
TopSort(g) ==
    LET indegree == [w \in 1..g.n |->
                        Cardinality({v \in 1..g.n : HasEdge(g, v, w)})]
    IN  topsort(g, indegree,
                SelectSeq([v \in 1..g.n |-> v], LAMBDA v : indegree[v] = 0), <<>>)

ErrCycles == <<<<"dependency cycles exist", 0>>>>

\* mutant: the topological sort taken as it comes, dependents first
DeployOrderNotReversed(g) ==
    {IF t.ok THEN [err |-> Nil, deployments |-> t.order]
             ELSE [err |-> ErrCycles, deployments |-> <<>>] : t \in TopSort(g)}

\* Graph.DeployOrder: an error when graph.TopSort reports a cycle, otherwise
\* the topological sort reversed, dependencies first
DeployOrder(g) ==
    {IF t.ok THEN [err |-> Nil,
                   deployments |-> [i \in 1..g.n |-> t.order[g.n + 1 - i]]]
             ELSE [err |-> ErrCycles, deployments |-> <<>>] : t \in TopSort(g)}


\* ------------------------------------------------ model.Graph: resolving
\* A Deployment is [Type, Name, Labels, Dependencies, DependencyOf]; a
\* DependencySpec is [Type, Name, WaitForHealthy, Filters]; a Filter is
\* [Key, Value, Values, Negate] (Glob and Regexp are false throughout).
ErrNameAndFilters ==
    <<<<"dependency can have name attribute or filter blocks but not both", 0>>>>
ErrUnknownType == <<<<"unknown dependency type", 0>>>>
ErrNoValue == <<<<"filter must have one of value or values attribute", 0>>>>
ErrUnknownKey == <<<<"unknown filter key", 0>>>>

\* the elements of a sequence
Range(s) == {s[i] : i \in DOMAIN s}

\* ---------------------------------------------------------------- patterns
\* A Go string is a TLA+ string; Char is its i-th character.
Char(s, i) == SubSeq(s, i, i)

ErrCharClass == <<<<"character classes not supported in glob yet", 0>>>>
ErrUnknownEscape == <<<<"unknown escape sequence", 0>>>>
ErrTrailingBackslash == <<<<"trailing backslash at end of expression", 0>>>>
ErrMissingArgument == <<<<"missing argument to repetition operator", 0>>>>
ErrNestedRepetition == <<<<"invalid nested repetition operator", 0>>>>
ErrMissingBracket == <<<<"missing closing ]", 0>>>>

\* regexp.QuoteMeta of one character
QuoteMeta(r) ==
    IF r \in {"\\", ".", "+", "*", "?", "(", ")", "|", "[", "]", "{", "}", "^", "$"}
    THEN "\\" \o r
    ELSE r

\* globToRegexp, the loop over the characters of glob from index i on.  The
\* flag backslash is cleared after \\ and \*, but not after \?, \[ and \].
RECURSIVE globLoop(_, _, _, _)
globLoop(glob, i, backslash, builder) ==
    IF i > Len(glob) THEN [re |-> builder \o "$", err |-> Nil]
    ELSE LET r == Char(glob, i) IN
         CASE r = "\\" ->
                  IF backslash THEN globLoop(glob, i + 1, FALSE, builder \o "\\\\")
                  ELSE globLoop(glob, i + 1, TRUE, builder)
           [] r = "*" ->
                  IF backslash THEN globLoop(glob, i + 1, FALSE, builder \o "\\*")
                  ELSE globLoop(glob, i + 1, backslash, builder \o ".*")
           [] r = "?" ->
                  IF backslash THEN globLoop(glob, i + 1, backslash, builder \o "\\?")
                  ELSE globLoop(glob, i + 1, backslash, builder \o ".")
           [] r \in {"[", "]"} ->
                  IF backslash THEN globLoop(glob, i + 1, backslash, builder \o "\\" \o r)
                  ELSE [re |-> "", err |-> ErrCharClass]
           [] OTHER ->
                  IF backslash THEN [re |-> "", err |-> ErrUnknownEscape]
                  ELSE globLoop(glob, i + 1, backslash, builder \o QuoteMeta(r))

globToRegexp(glob) == globLoop(glob, 1, FALSE, "^")

\* regexp.Compile for the syntax the patterns of this model use: literal
\* characters, backslash before a punctuation character, ".", "^", "$", the
\* repetitions "*", "+" and "?" after one of these, "?" after a repetition
\* (non-greedy), and a "[" that no "]" closes.  The compiled form is the
\* sequence of the items, each [kind, char, rep, lazy].
RECURSIVE parse(_, _, _)
parse(re, i, items) ==
    IF i > Len(re) THEN [items |-> items, err |-> Nil]
    ELSE LET c == Char(re, i)
             item(kind, ch) == [kind |-> kind, char |-> ch, rep |-> "", lazy |-> FALSE]
             last == items[Len(items)]
         IN
         CASE c = "\\" ->
                  IF i = Len(re) THEN [items |-> <<>>, err |-> ErrTrailingBackslash]
                  ELSE parse(re, i + 2, Append(items, item("literal", Char(re, i + 1))))
           [] c \in {"*", "+", "?"} ->
                  IF Len(items) = 0 THEN [items |-> <<>>, err |-> ErrMissingArgument]
                  ELSE IF last.rep = ""
                  THEN parse(re, i + 1, [items EXCEPT ![Len(items)].rep = c])
                  ELSE IF c = "?" /\ ~last.lazy
                  THEN parse(re, i + 1, [items EXCEPT ![Len(items)].lazy = TRUE])
                  ELSE [items |-> <<>>, err |-> ErrNestedRepetition]
           [] c = "[" -> [items |-> <<>>, err |-> ErrMissingBracket]
           [] c = "^" -> parse(re, i + 1, Append(items, item("begin", "")))
           [] c = "$" -> parse(re, i + 1, Append(items, item("end", "")))
           [] c = "." -> parse(re, i + 1, Append(items, item("any", "")))
           [] OTHER -> parse(re, i + 1, Append(items, item("literal", c)))

Compile(re) == parse(re, 1, <<>>)

\* the item matches the character at position i of s, or the position i
\* itself for an anchor; "." matches any character but the newline
itemMatches(item, s, i) ==
    CASE item.kind = "begin" -> i = 1
      [] item.kind = "end" -> i = Len(s) + 1
      [] item.kind = "any" -> i <= Len(s) /\ Char(s, i) # "\n"
      [] OTHER -> i <= Len(s) /\ Char(s, i) = item.char

\* the items from the k-th on match s from position i on, up to any position
RECURSIVE matchFrom(_, _, _, _)
matchFrom(items, k, s, i) ==
    IF k > Len(items) THEN TRUE
    ELSE LET item == items[k]
             width == IF item.kind \in {"begin", "end"} THEN 0 ELSE 1
             once == itemMatches(item, s, i)
         IN  CASE item.rep = "" -> once /\ matchFrom(items, k + 1, s, i + width)
               [] item.rep = "?" ->
                      \/ matchFrom(items, k + 1, s, i)
                      \/ once /\ matchFrom(items, k + 1, s, i + width)
               [] item.rep = "*" ->
                      \/ matchFrom(items, k + 1, s, i)
                      \/ width = 1 /\ once /\ matchFrom(items, k, s, i + 1)
               [] item.rep = "+" ->
                      once /\ matchFrom([items EXCEPT ![k].rep = "*"], k, s, i + width)

\* (*Regexp).MatchString: the expression matches somewhere in s
MatchString(compiled, s) ==
    \E i \in 1..(Len(s) + 1) : matchFrom(compiled, 1, s, i)

\* ----------------------------------------------------------------- filters
\* mutant: only the first value of the filter is tried, and literally
tryValuesFirst(filter, values, compareTo, k) ==
    IF \E j \in DOMAIN compareTo : values[1] = compareTo[j]
    THEN [matches |-> ~filter.Negate, err |-> Nil]
    ELSE [matches |-> filter.Negate, err |-> Nil]

\* filterMatches, the loop over the values from the k-th on: a value that is
\* a pattern is converted and compiled when its turn comes, so an invalid
\* pattern after a value that matched is not reported
RECURSIVE tryValues(_, _, _, _)
tryValues(filter, values, compareTo, k) ==
    IF k > Len(values) THEN [matches |-> filter.Negate, err |-> Nil]
    ELSE LET val == values[k] IN
         IF filter.Glob \/ filter.Regexp
         THEN LET converted == IF filter.Glob THEN globToRegexp(val)
                               ELSE [re |-> val, err |-> Nil]
                  compiled == Compile(converted.re)
              IN  IF converted.err # Nil
                  THEN [matches |-> FALSE,
                        err |-> Wrap("invalid glob pattern", 0, converted.err)]
                  ELSE IF compiled.err # Nil
                  THEN [matches |-> FALSE,
                        err |-> Wrap("invalid regexp pattern", 0, compiled.err)]
                  ELSE IF \E j \in DOMAIN compareTo :
                              MatchString(compiled.items, compareTo[j])
                  THEN [matches |-> ~filter.Negate, err |-> Nil]
                  ELSE tryValues(filter, values, compareTo, k + 1)
         ELSE IF \E j \in DOMAIN compareTo : val = compareTo[j]
         THEN [matches |-> ~filter.Negate, err |-> Nil]
         ELSE tryValues(filter, values, compareTo, k + 1)

\* filterMatches: the values of the filter are compared with the name or the
\* labels of the deployment d, literally or as patterns; Negate inverts the
\* outcome, a deployment with nothing to compare matches iff Negate.
filterMatches(filter, d) ==
    IF Len(filter.Values) = 0 /\ filter.Value = ""
    THEN [matches |-> FALSE, err |-> ErrNoValue]
    ELSE IF filter.Key \notin {"name", "labels"}
    THEN [matches |-> FALSE, err |-> ErrUnknownKey]
    ELSE LET values == IF Len(filter.Values) = 0 THEN <<filter.Value>>
                       ELSE filter.Values
             compareTo == IF filter.Key = "name" THEN <<d.Name>>
                          ELSE d.Labels
         IN  IF Len(compareTo) = 0
             THEN [matches |-> filter.Negate, err |-> Nil]
             ELSE tryValues(filter, values, compareTo, 1)

\* mutant: the first filter decides
allMatchFirst(filters, d) ==
    IF filters = <<>> THEN [matches |-> TRUE, err |-> Nil]
    ELSE filterMatches(Head(filters), d)

\* findDependents, the loop over the filters for one deployment d: the first
\* error or the first filter that does not match ends it
RECURSIVE allMatch(_, _)
allMatch(filters, d) ==
    IF filters = <<>> THEN [matches |-> TRUE, err |-> Nil]
    ELSE LET m == filterMatches(Head(filters), d) IN
         IF m.err # Nil \/ ~m.matches THEN m
         ELSE allMatch(Tail(filters), d)

\* findDependents, the loop over the deployments from index i on
RECURSIVE scan(_, _, _, _, _)
scan(dependency, filters, deployments, i, dependents) ==
    IF i > Len(deployments) THEN [dependents |-> dependents, err |-> Nil]
    ELSE IF dependency.Type \notin {"*", "marathon_app", "chronos_job"}
    THEN [dependents |-> <<>>, err |-> ErrUnknownType]
    ELSE IF dependency.Type # "*" /\ dependency.Type # deployments[i].Type
    THEN scan(dependency, filters, deployments, i + 1, dependents)
    ELSE LET m == allMatch(filters, deployments[i]) IN
         IF m.err # Nil THEN [dependents |-> <<>>, err |-> m.err]
         ELSE scan(dependency, filters, deployments, i + 1,
                   IF m.matches THEN Append(dependents, i) ELSE dependents)

\* findDependents: the indices of the deployments a spec resolves to.  A
\* name is turned into the filter name = Name; a name together with filter
\* blocks is an error.
findDependents(dependency, deployments) ==
    IF dependency.Name # "" /\ Len(dependency.Filters) # 0
    THEN [dependents |-> <<>>, err |-> ErrNameAndFilters]
    ELSE scan(dependency,
              IF dependency.Name # ""
              THEN <<[Key |-> "name", Value |-> dependency.Name, Values |-> <<>>,
                      Glob |-> FALSE, Regexp |-> FALSE, Negate |-> FALSE]>>
              ELSE dependency.Filters,
              deployments, 1, <<>>)

\* ------------------------------------------------- model.Graph: building
\* A Graph is [deployments, index, rawGraph]; rawGraph is [nil, n, cost],
\* nil until Build allocates it.  Vertex i + 1 stands for the Go index i.
ZeroGraph ==
    [deployments |-> <<>>, index |-> <<>>,
     rawGraph |-> [nil |-> TRUE, n |-> 0, cost |-> <<>>]]

ErrAlreadyBuilt == <<<<"graph has already been built", 0>>>>

\* Deployment.Ref
Ref(d) == [Type |-> d.Type, Name |-> d.Name]

\* graph.New(n): n vertices and no edges
New(n) == [nil |-> FALSE, n |-> n, cost |-> <<>>]

\* rawGraph.AddCost(v, w, c): the edge v -> w is inserted with cost c; the
\* cost of an edge that exists already is overwritten
AddCost(raw, v, w, c) ==
    [raw EXCEPT !.cost =
        [p \in DOMAIN @ \cup {<<v, w>>} |-> IF p = <<v, w>> THEN c ELSE @[p]]]

\* mutant: an inverse dependency is inserted like a dependency
RECURSIVE addEdgesForward(_, _, _, _, _)
addEdgesForward(raw, i, inverse, dependents, c) ==
    IF dependents = <<>> THEN raw
    ELSE addEdgesForward(AddCost(raw, i, Head(dependents), c),
                         i, inverse, Tail(dependents), c)

\* Build, `for _, k := range dependents`: an edge i -> k for a dependency of
\* i, an edge k -> i for an inverse dependency
RECURSIVE addEdges(_, _, _, _, _)
addEdges(raw, i, inverse, dependents, c) ==
    IF dependents = <<>> THEN raw
    ELSE LET k == Head(dependents) IN
         addEdges(IF inverse THEN AddCost(raw, k, i, c) ELSE AddCost(raw, i, k, c),
                  i, inverse, Tail(dependents), c)

\* the specs of the deployments in the order Build takes them: for each
\* deployment its Dependencies, then its DependencyOf
RECURSIVE specsFrom(_, _)
specsFrom(deployments, i) ==
    IF i > Len(deployments) THEN <<>>
    ELSE [j \in DOMAIN deployments[i].Dependencies |->
             [i |-> i, inverse |-> FALSE, spec |-> deployments[i].Dependencies[j]]]
         \o [j \in DOMAIN deployments[i].DependencyOf |->
             [i |-> i, inverse |-> TRUE, spec |-> deployments[i].DependencyOf[j]]]
         \o specsFrom(deployments, i + 1)

\* Build, the loops over the specs: the first spec that does not resolve
\* ends Build with the wrapped error and the edges added so far
RECURSIVE resolveAll(_, _, _)
resolveAll(raw, deployments, specs) ==
    IF specs = <<>> THEN [rawGraph |-> raw, err |-> Nil]
    ELSE LET s == Head(specs)
             found == findDependents(s.spec, deployments)
             c == IF s.spec.WaitForHealthy THEN 1 ELSE 0
         IN  IF found.err # Nil
             THEN [rawGraph |-> raw,
                   err |-> Wrap(IF s.inverse THEN "finding inverse dependents"
                                ELSE "finding dependents", s.i, found.err)]
             ELSE resolveAll(addEdges(raw, s.i, s.inverse, found.dependents, c),
                             deployments, Tail(specs))

\* Graph.Build on the graph G: the graph after the call and the error
\* returned.  A graph that has deployments is left alone with an error; an
\* empty list leaves the graph as it is without an error; otherwise the
\* deployments are indexed by position (a ref given twice keeps the last
\* index) and the edges are added spec by spec.
Build(G, deployments) ==
    IF Len(G.deployments) # 0 THEN [g |-> G, err |-> ErrAlreadyBuilt]
    ELSE IF Len(deployments) = 0 THEN [g |-> G, err |-> Nil]
    ELSE LET r == resolveAll(New(Len(deployments)), deployments,
                             specsFrom(deployments, 1))
         IN  [g |-> [deployments |-> [i \in DOMAIN deployments |-> Ref(deployments[i])],
                     index |-> [ref \in {Ref(deployments[i]) : i \in DOMAIN deployments} |->
                                   CHOOSE i \in DOMAIN deployments :
                                       /\ Ref(deployments[i]) = ref
                                       /\ \A j \in DOMAIN deployments :
                                              Ref(deployments[j]) = ref => j <= i],
                     rawGraph |-> r.rawGraph],
              err |-> r.err]

\* ------------------------------------------------- model.Graph: queries
ErrNotInGraph == <<<<"deployment not in graph", 0>>>>

\* the strongly connected component of v: v and the vertices that reach v
\* and are reached from it
Component(raw, v) ==
    {v} \cup {w \in 1..raw.n : Path(raw, v, w, raw.n) /\ Path(raw, w, v, raw.n)}

\* graph.StrongComponents(g.rawGraph): the components, each listing its
\* vertices; the library fixes neither the order of the components nor the
\* order within one, so every order is a possible result
StrongComponents(raw) ==
    LET components == {Component(raw, v) : v \in 1..raw.n}
        listings == UNION {Orders(c) : c \in components}
    IN  UNION {{r \in [1..Cardinality(components) -> listings] :
                   \A i \in DOMAIN r : Range(r[i]) = cs[i]} :
               cs \in Orders(components)}

\* g.deployments[j] for every vertex j of a list
Refs(G, vertices) == [i \in DOMAIN vertices |-> G.deployments[vertices[i]]]

\* mutant: every component is reported
CyclesOfAnySize(G) ==
    IF G.rawGraph.nil THEN {[panic |-> TRUE, cycles |-> <<>>]}
    ELSE {[panic |-> FALSE,
           cycles |-> [i \in DOMAIN components |-> Refs(G, components[i])]] :
             components \in StrongComponents(G.rawGraph)}

\* Graph.Cycles: the strong components that do not have exactly one vertex,
\* as refs.  The library dereferences the graph, which is nil before a Build
\* with deployments.
Cycles(G) ==
    IF G.rawGraph.nil THEN {[panic |-> TRUE, cycles |-> <<>>]}
    ELSE {[panic |-> FALSE,
           cycles |-> LET kept == SelectSeq(components, LAMBDA c : Len(c) # 1)
                      IN  [i \in DOMAIN kept |-> Refs(G, kept[i])]] :
             components \in StrongComponents(G.rawGraph)}

\* mutant: the deployments are returned in the order they were declared
DeployOrderRefsAsDeclared(G) ==
    IF G.rawGraph.nil THEN {[panic |-> TRUE, err |-> Nil, deployments |-> <<>>]}
    ELSE {[panic |-> FALSE, err |-> r.err,
           deployments |-> IF r.err = Nil THEN G.deployments ELSE <<>>] :
             r \in DeployOrder(G.rawGraph)}

\* Graph.DeployOrder as the caller sees it: the refs of the vertices in
\* deploy order, or the error
DeployOrderRefs(G) ==
    IF G.rawGraph.nil THEN {[panic |-> TRUE, err |-> Nil, deployments |-> <<>>]}
    ELSE {[panic |-> FALSE, err |-> r.err, deployments |-> Refs(G, r.deployments)] :
             r \in DeployOrder(G.rawGraph)}

\* mutant: a ref that is not in the index is taken for the first deployment
DependenciesOfFirstIfUnknown(G, ref) ==
    LET v == IF ref \in DOMAIN G.index THEN G.index[ref] ELSE 1 IN
    {[err |-> Nil,
      dependencies |-> [i \in DOMAIN visit |->
                           [Type |-> G.deployments[visit[i].node].Type,
                            Name |-> G.deployments[visit[i].node].Name,
                            WaitForHealthy |-> visit[i].WaitForHealthy]]] :
        visit \in Orders(Dependencies(G.rawGraph, v))}

\* Graph.Dependencies(ref): an error for a ref that is not in the index,
\* otherwise one DependencyRef for each outgoing neighbour, in the order
\* rawGraph.Visit enumerates them
DependenciesOf(G, ref) ==
    IF ref \notin DOMAIN G.index
    THEN {[err |-> ErrNotInGraph, dependencies |-> <<>>]}
    ELSE {[err |-> Nil,
           dependencies |-> [i \in DOMAIN visit |->
                                [Type |-> G.deployments[visit[i].node].Type,
                                 Name |-> G.deployments[visit[i].node].Name,
                                 WaitForHealthy |-> visit[i].WaitForHealthy]]] :
             visit \in Orders(Dependencies(G.rawGraph, G.index[ref]))}

\* --------------------------------------------------- the inputs of Build
\* The i-th deployment of an input has a fixed ref and fixed labels; refs
\* are distinct, as main checks before it calls Build.
Names == <<"a", "b", "c">>
RefAt(i) ==
    [Type |-> IF i % 2 = 1 THEN "marathon_app" ELSE "chronos_job",
     Name |-> Names[(i + 1) \div 2]]
LabelsAt(i) == IF i = 1 THEN <<"x">> ELSE IF i = 2 THEN <<>> ELSE <<"x", "y">>

\* n deployments without dependency blocks
Base(n) ==
    [i \in 1..n |-> [Type |-> RefAt(i).Type, Name |-> RefAt(i).Name,
                     Labels |-> LabelsAt(i), Dependencies |-> <<>>,
                     DependencyOf |-> <<>>]]

\* the named form of a spec, for the k-th deployment
Named(k, waitForHealthy) ==
    [Type |-> RefAt(k).Type, Name |-> RefAt(k).Name,
     WaitForHealthy |-> waitForHealthy, Filters |-> <<>>]

\* a dependency (or dependency_of) block added to the i-th deployment
WithSpec(deployments, i, inverse, spec) ==
    [deployments EXCEPT ![i] =
        IF inverse THEN [@ EXCEPT !.DependencyOf = Append(@, spec)]
        ELSE [@ EXCEPT !.Dependencies = Append(@, spec)]]

\* the declaration of a graph with named dependency blocks only
FromGraph(dg) ==
    [i \in 1..dg.n |->
        [Base(dg.n)[i] EXCEPT !.Dependencies =
            LET ks == SelectSeq([k \in 1..dg.n |-> k], LAMBDA k : HasEdge(dg, i, k))
            IN  [j \in DOMAIN ks |-> Named(ks[j], dg.cost[<<i, ks[j]>>] = 1)]]]

FilterOf(key, value, negate) ==
    [Key |-> key, Value |-> value, Values |-> <<>>, Glob |-> FALSE,
     Regexp |-> FALSE, Negate |-> negate]

\* filter blocks: none, by name, by label, negated, with a list of values,
\* without a value, with an unknown key, and two blocks
FilterLists ==
    {<<>>,
     <<FilterOf("name", "b", FALSE)>>,
     <<FilterOf("labels", "x", FALSE)>>,
     <<FilterOf("labels", "x", TRUE)>>,
     <<[FilterOf("name", "", FALSE) EXCEPT !.Values = <<"a", "b">>]>>,
     <<FilterOf("name", "", FALSE)>>,
     <<FilterOf("framework", "x", FALSE)>>,
     <<FilterOf("labels", "x", FALSE), FilterOf("name", "b", FALSE)>>}

\* dependency blocks of every form: the two deployment types, the wildcard
\* and an unknown type; no name, the name of a deployment and a name no
\* deployment has
Specs ==
    [Type : {"marathon_app", "chronos_job", "*", "mesos_task"},
     Name : {"", "a", "z"},
     WaitForHealthy : BOOLEAN,
     Filters : FilterLists]

\* the blocks used where two blocks are combined
SmallSpecs(n) ==
    {Named(k, w) : k \in 1..n, w \in BOOLEAN}
    \cup {[Type |-> "*", Name |-> "", WaitForHealthy |-> TRUE, Filters |-> <<>>],
          [Type |-> "marathon_app", Name |-> "a", WaitForHealthy |-> FALSE,
           Filters |-> <<FilterOf("labels", "x", FALSE)>>]}

\* deployments with one block of any form
OneSpec ==
    UNION {{WithSpec(Base(n), i, inverse, spec) :
               i \in 1..n, inverse \in BOOLEAN, spec \in Specs} :
           n \in 1..MaxNodes}

\* deployments with two blocks
TwoSpecs ==
    UNION {{WithSpec(WithSpec(Base(n), p[1], p[2], p[3]), q[1], q[2], q[3]) :
               p \in (1..n) \X BOOLEAN \X SmallSpecs(n),
               q \in (1..n) \X BOOLEAN \X SmallSpecs(n)} :
           n \in 1..MaxNodes}

Inputs == {FromGraph(dg) : dg \in Digraphs} \cup OneSpec \cup TwoSpecs

\* what a second call of Build is given
SecondCalls == {<<>>, Base(1), Base(2)}

\* the refs Dependencies is asked about: those of the inputs and one more
QueryRefs ==
    {RefAt(i) : i \in 1..MaxNodes} \cup {[Type |-> "marathon_app", Name |-> "z"]}

\* ------------------------------------------------- calls of the resolver
\* the strings of at most n characters drawn from chars
RECURSIVE StringsOver(_, _)
StringsOver(chars, n) ==
    IF n = 0 THEN {""}
    ELSE LET shorter == StringsOver(chars, n - 1)
         IN  shorter \cup {s \o c : s \in shorter, c \in chars}

\* glob patterns: a letter, the wildcards, the escape character, the
\* brackets and a character regexp.QuoteMeta has to quote
GlobChars == {"a", "*", "?", "\\", "[", "]", "."}
Globs == StringsOver(GlobChars, MaxGlob)

\* the strings matched against the patterns
SubjectChars == {"a", "*", "?", "\\", ".", "\n"}
Subjects == StringsOver(SubjectChars, MaxSubject)

\* filters: the two keys and an unknown one; no value, literal values and
\* values that are patterns, one of them no glob ("[") and one no regexp
\* ("*"), one with an escape; a list of values or none; every flag
Filters ==
    [Key : {"name", "labels", "framework"},
     Value : {"", "a", "ab", "a*", "*", "[", "\\?a"},
     Values : {<<>>, <<"b", "a">>, <<"a", "[">>},
     Glob : BOOLEAN, Regexp : BOOLEAN, Negate : BOOLEAN]

\* deployments to match: with one label, several or none
Records ==
    {[Type |-> "marathon_app", Name |-> name, Labels |-> labels,
      Dependencies |-> <<>>, DependencyOf |-> <<>>] :
        name \in {"a", "ab", "b"}, labels \in {<<>>, <<"a">>, <<"b", "ab">>}}

\* scenario S2: bootstrap carries the label b, app1 and app2 carry none
S2Records ==
    LET record(name, labels) ==
            [Type |-> "marathon_app", Name |-> name, Labels |-> labels,
             Dependencies |-> <<>>, DependencyOf |-> <<>>]
    IN  <<record("bootstrap", <<"b">>), record("app1", <<>>), record("app2", <<>>)>>
S2Spec ==
    [Type |-> "*", Name |-> "", WaitForHealthy |-> FALSE,
     Filters |-> <<FilterOf("labels", "b", TRUE)>>]

\* the specs findDependents is given: those of the inputs of Build, a glob
\* filter, two filters of which one is negated, and the spec of S2
ResolveSpecs ==
    Specs \cup {S2Spec}
    \cup [Type : {"marathon_app", "chronos_job", "*"}, Name : {""},
          WaitForHealthy : {FALSE},
          Filters : {<<[FilterOf("name", "?", FALSE) EXCEPT !.Glob = TRUE]>>,
                     <<FilterOf("labels", "x", FALSE), FilterOf("name", "c", TRUE)>>}]

ResolveLists == {Base(n) : n \in 0..MaxNodes} \cup {S2Records}

Calls ==
    {[fn |-> "filterMatches", filter |-> f, d |-> d] : f \in Filters, d \in Records}
    \cup {[fn |-> "globToRegexp", glob |-> glob] : glob \in Globs}
    \cup {[fn |-> "findDependents", dependency |-> spec, deployments |-> list] :
             spec \in ResolveSpecs, list \in ResolveLists}

\* --------------------------------------------------------- channel helpers
\* mutant: a later error replaces the stored one
sendErrorReplacing(ch, err) == <<err>>

\* GraphDeployer.sendError: a send that never blocks; the error is dropped
\* when the single slot is taken.
sendError(ch, err) == IF Len(ch) < ErrorsChanCap THEN Append(ch, err) ELSE ch

\* GraphDeployer.sendEvent: nothing is sent on a nil channel; otherwise the
\* observer receives the event.
sendEvent(log, workerID, node, type) ==
    IF eventsChanNil THEN log
    ELSE [log EXCEPT ![node] = Append(@, [Type |-> type, WorkerID |-> workerID])]

\* mutant: the swap stores whatever the status word holds
swapsAlways(cur, old) == TRUE

\* Deployment._swapStatus(old, new) on a status word holding cur: whether
\* the compare-and-swap stores, and the status after it
swaps(cur, old) == cur = old

swapStatus(cur, old, new) == IF swaps(cur, old) THEN new ELSE cur

\* mutant: one worker too many (i <= d.maxDeploy)
SpawnedOneMore(max) == 1..(max + 1)

\* the loop `for i := 0; i < d.maxDeploy; i++` of Deploy: the worker IDs
Spawned(max) == 1..max

\* mutant: a failure is counted only when its error found the slot free
countStoredFailure(s, ch) ==
    IF Len(ch) < ErrorsChanCap THEN [s EXCEPT !.FailedDeployments = @ + 1] ELSE s

\* workerMain: atomic.AddInt32(&d.stats.FailedDeployments, 1), whatever
\* becomes of the error offered to errorsChan
countFailure(s, ch) == [s EXCEPT !.FailedDeployments = @ + 1]

\* ---------------------------------------------------------------- initial
\* NewGraphDeployer has run and Deploy has not: no goroutine is started, the
\* channels are open and empty, every Deployment is the zero value.
Constructed ==
    /\ mainPC = "start"
    /\ deployOrder = <<>>
    /\ next = 1
    /\ workChanClosed = FALSE
    /\ eventsChanClosed = FALSE
    /\ errorsChan = <<>>
    /\ stats = [TotalDeployments |-> 0, SuccessfulDeployments |-> 0,
                FailedDeployments |-> 0]
    /\ result = Nil
    /\ workerPC = [w \in Workers |-> "unstarted"]
    /\ deployment = [w \in Workers |-> 0]
    /\ dependencies = [w \in Workers |-> <<>>]
    /\ waitErr = [w \in Workers |-> Nil]
    /\ status = [v \in Nodes |-> "NotReady"]
    /\ deployChanClosed = [v \in Nodes |-> FALSE]
    /\ healthyChanClosed = [v \in Nodes |-> FALSE]
    /\ deployError = [v \in Nodes |-> Nil]
    /\ healthyError = [v \in Nodes |-> Nil]
    /\ deployCalls = [v \in Nodes |-> 0]
    /\ healthCalls = [v \in Nodes |-> 0]
    /\ deployResult = [v \in Nodes |-> "none"]
    /\ healthResult = [v \in Nodes |-> "none"]
    /\ events = [v \in Nodes |-> <<>>]
    /\ counted = [v \in Nodes |-> "none"]
    /\ firstError = Nil

\* `var graph model.Graph`: the zero Graph, nothing called on it so far
NoAnswer == [op |-> "none", ref |-> <<>>, panic |-> FALSE, err |-> Nil, value |-> <<>>]

Declared ==
    /\ modelGraph = ZeroGraph
    /\ buildCalls = 0
    /\ lastArg = <<>>
    /\ buildErr = Nil
    /\ before = ZeroGraph
    /\ answer = NoAnswer

\* no function of the resolver is called on its own
NoCall == [fn |-> "none"]
NotReturned == [pending |-> TRUE]
NotCalled ==
    /\ call = NoCall
    /\ returned = NotReturned

\* no goroutine but those of the deployer calls a Deployment
NoCallers ==
    /\ callerPC = <<>>
    /\ callerErr = <<>>
    /\ lastCall = [caller |-> 0, op |-> "none", refused |-> FALSE, turn |-> 0]
    /\ winners = {}
    /\ losers = {}
    /\ seenDeploy = {}
    /\ seenHealthy = {}

\* a deployer for a DAG, up to MaxWorkers workers, with or without an
\* events channel
Init ==
    /\ graph \in Graphs
    /\ maxDeploy \in 1..MaxWorkers
    /\ eventsChanNil \in BOOLEAN
    /\ Constructed
    /\ input = <<>>
    /\ Declared
    /\ NotCalled
    /\ NoCallers

\* a deployer for any Graph Build can leave behind: the DAGs, the graphs
\* with a dependency cycle and the Graph without deployments, whose rawGraph
\* is nil
InitCyclic ==
    /\ graph \in Graphs \cup {g \in Digraphs : HasCycle(g)} \cup {ZeroGraph.rawGraph}
    /\ maxDeploy \in 1..MaxWorkers
    /\ eventsChanNil \in BOOLEAN
    /\ Constructed
    /\ input = <<>>
    /\ Declared
    /\ NotCalled
    /\ NoCallers

\* a Graph about to be built from one of the inputs; no deployer runs
InitBuild ==
    /\ input \in Inputs
    /\ Declared
    /\ NotCalled
    /\ NoCallers
    /\ graph = ZeroGraph.rawGraph
    /\ maxDeploy = 1
    /\ eventsChanNil = FALSE
    /\ Constructed

\* one call of a function of the resolver; no Graph is built, no deployer
\* runs
InitCall ==
    /\ call \in Calls
    /\ returned = NotReturned
    /\ NoCallers
    /\ input = <<>>
    /\ Declared
    /\ graph = ZeroGraph.rawGraph
    /\ maxDeploy = 1
    /\ eventsChanNil = FALSE
    /\ Constructed

\* ------------------------------------------------- GraphDeployer.Deploy
\* Deploy, up to the enqueue loop: spawn maxDeploy workers, take the deploy
\* order, set TotalDeployments and ready() every deployment.
Setup ==
    /\ mainPC = "start"
    /\ ~graph.nil
    /\ \E r \in DeployOrder(graph) :
           /\ r.err = Nil
           /\ deployOrder' = r.deployments
    /\ workerPC' = [w \in Workers |-> IF w \in Spawned(maxDeploy) THEN "idle" ELSE "unused"]
    /\ stats' = [stats EXCEPT !.TotalDeployments = graph.n]
    /\ status' = [v \in Nodes |-> swapStatus(status[v], "NotReady", "Ready")]
    /\ next' = 1
    /\ mainPC' = IF graph.n = 0 THEN "close" ELSE "emit"
    /\ UNCHANGED <<configVars, workChanClosed, eventsChanClosed, errorsChan, result,
                   deployment, dependencies, waitErr, deployChanClosed,
                   healthyChanClosed, deployError, healthyError, adapterVars,
                   events, counted, firstError>>

\* Deploy when DeployOrder returns an error: the workers are spawned
\* already, Deploy returns the wrapped error.
RefuseOrder ==
    /\ mainPC = "start"
    /\ ~graph.nil
    /\ \E r \in DeployOrder(graph) :
           /\ r.err # Nil
           /\ result' = Wrap("resolving deployment order", 0, r.err)
    /\ workerPC' = [w \in Workers |-> IF w \in Spawned(maxDeploy) THEN "idle" ELSE "unused"]
    /\ mainPC' = "refused"
    /\ UNCHANGED <<configVars, deployOrder, next, workChanClosed, eventsChanClosed,
                   errorsChan, stats, deployment, dependencies, waitErr, nodeVars,
                   adapterVars, events, counted, firstError>>

\* Deploy on a Graph whose rawGraph is nil: the workers are spawned, then
\* graph.TopSort dereferences the nil graph inside DeployOrder and Deploy
\* panics; its deferred closeWorkChan and closeEventsChan run while the
\* panic unwinds, and nothing is returned.
PanicOrder ==
    /\ mainPC = "start"
    /\ graph.nil
    /\ workerPC' = [w \in Workers |-> IF w \in Spawned(maxDeploy) THEN "idle" ELSE "unused"]
    /\ workChanClosed' = TRUE
    /\ eventsChanClosed' = ~eventsChanNil
    /\ mainPC' = "panicked"
    /\ UNCHANGED <<configVars, deployOrder, next, errorsChan, stats, result,
                   deployment, dependencies, waitErr, nodeVars, adapterVars,
                   events, counted, firstError>>

\* mutant: the early return closes the events channel only
DeferredCloseEventsOnly ==
    /\ mainPC = "refused"
    /\ eventsChanClosed' = ~eventsChanNil
    /\ mainPC' = "returned"
    /\ UNCHANGED <<configVars, deployOrder, next, workChanClosed, errorsChan, stats,
                   result, workerPC, deployment, dependencies, waitErr, nodeVars,
                   adapterVars, events, counted, firstError>>

\* the deferred closeWorkChan and closeEventsChan of an early return; Deploy
\* returns without waiting for the workers
DeferredClose ==
    /\ mainPC = "refused"
    /\ workChanClosed' = TRUE
    /\ eventsChanClosed' = ~eventsChanNil
    /\ mainPC' = "returned"
    /\ UNCHANGED <<configVars, deployOrder, next, errorsChan, stats, result,
                   workerPC, deployment, dependencies, waitErr, nodeVars,
                   adapterVars, events, counted, firstError>>

\* mutant: the deployment is pushed without an Enqueued event
EmitEnqueuedNothing ==
    /\ mainPC = "emit"
    /\ mainPC' = "push"
    /\ UNCHANGED <<configVars, deployOrder, next, workChanClosed, eventsChanClosed, errorsChan,
                   stats, result, workerPC, deployment, dependencies, waitErr,
                   nodeVars, adapterVars, events, counted, firstError>>

\* the enqueue loop: d.sendEvent(0, Event{Type: EventEnqueued, ...})
EmitEnqueued ==
    /\ mainPC = "emit"
    /\ events' = sendEvent(events, 0, deployOrder[next], "Enqueued")
    /\ mainPC' = "push"
    /\ UNCHANGED <<configVars, deployOrder, next, workChanClosed, eventsChanClosed, errorsChan,
                   stats, result, workerPC, deployment, dependencies, waitErr,
                   nodeVars, adapterVars, counted, firstError>>

\* d.closeWorkChan() after the last push
CloseWorkChan ==
    /\ mainPC = "close"
    /\ workChanClosed' = TRUE
    /\ mainPC' = "wait"
    /\ UNCHANGED <<configVars, deployOrder, next, eventsChanClosed, errorsChan, stats, result,
                   workerPC, deployment, dependencies, waitErr, nodeVars,
                   adapterVars, events, counted, firstError>>

\* mutant: Deploy does not wait for the workers
ReturnNotWaiting ==
    /\ mainPC = "wait"
    /\ result' = IF Len(errorsChan) > 0 THEN Head(errorsChan) ELSE Nil
    /\ errorsChan' = IF Len(errorsChan) > 0 THEN Tail(errorsChan) ELSE errorsChan
    /\ eventsChanClosed' = ~eventsChanNil
    /\ mainPC' = "returned"
    /\ UNCHANGED <<configVars, deployOrder, next, workChanClosed, stats, workerPC, deployment,
                   dependencies, waitErr, nodeVars, adapterVars, events, counted,
                   firstError>>

\* d.waitGroup.Wait(), the select on errorsChan, and the deferred
\* closeWorkChan (a no-op by now) and closeEventsChan
Return ==
    /\ mainPC = "wait"
    /\ \A w \in Workers : workerPC[w] \in {"exited", "unused"}
    /\ result' = IF Len(errorsChan) > 0 THEN Head(errorsChan) ELSE Nil
    /\ errorsChan' = IF Len(errorsChan) > 0 THEN Tail(errorsChan) ELSE errorsChan
    /\ eventsChanClosed' = ~eventsChanNil
    /\ mainPC' = "returned"
    /\ UNCHANGED <<configVars, deployOrder, next, workChanClosed, stats, workerPC, deployment,
                   dependencies, waitErr, nodeVars, adapterVars, events, counted,
                   firstError>>

\* --------------------------------------------- GraphDeployer.workerMain
\* d.workChan <- deployment meets `for deployment := range d.workChan`
\* (the channel is unbuffered); the worker then sends EventDequeued, resolves
\* the dependencies (every dependency has a deployment: deploymentsByRef is
\* complete) and sends EventDependenciesResolved.
Dequeue(w) ==
    /\ mainPC = "push"
    /\ workerPC[w] = "idle"
    /\ LET v == deployOrder[next] IN
       /\ deployment' = [deployment EXCEPT ![w] = v]
       /\ \E order \in Orders(Dependencies(graph, v)) :
              dependencies' = [dependencies EXCEPT ![w] = order]
       /\ events' = sendEvent(sendEvent(events, w, v, "Dequeued"), w, v,
                              "DependenciesResolved")
    /\ workerPC' = [workerPC EXCEPT ![w] = "wait"]
    /\ next' = next + 1
    /\ mainPC' = IF next = graph.n THEN "close" ELSE "emit"
    /\ UNCHANGED <<configVars, deployOrder, workChanClosed, eventsChanClosed, errorsChan, stats,
                   result, waitErr, nodeVars, adapterVars, counted, firstError>>

\* the range loop ends when workChan is closed and empty
WorkerExit(w) ==
    /\ workerPC[w] = "idle"
    /\ workChanClosed
    /\ workerPC' = [workerPC EXCEPT ![w] = "exited"]
    /\ UNCHANGED <<configVars, mainVars, errorsChan, stats, deployment,
                   dependencies, waitErr, nodeVars, adapterVars, events, counted,
                   firstError>>

\* -------------------------------------------- GraphDeployer.workerDeploy
\* mutant: the result of the wait is not looked at
FailedIgnored(err) == FALSE

\* the check `if err != nil` after a wait on a dependency
Failed(err) == err # Nil

\* mutant: the wait for the deploy phase returns no error
WaitUntilDeployedNil(v) == Nil

\* Deployment.WaitUntilDeployed, once deployChan is closed: the deploy error.
\* deployMutex is free whenever deployChan is closed (_deployPhase unlocks
\* before its deferred close runs, cancel unlocks before it closes).
WaitUntilDeployed(v) == deployError[v]

\* mutant: the health wait returns the deploy error
WaitUntilHealthyReadsDeployError(v) == deployError[v]

\* Deployment.WaitUntilHealthy, once healthyChan is closed: the health error
WaitUntilHealthy(v) == healthyError[v]

\* the wait loop of workerDeploy: dependency.Deployment.WaitUntilDeployed()
\* blocks until deployChan is closed
WaitDeployed(w) ==
    /\ workerPC[w] = "wait"
    /\ dependencies[w] # <<>>
    /\ LET v == deployment[w]
           dep == Head(dependencies[w])
           err == WaitUntilDeployed(dep.node)
       IN  /\ deployChanClosed[dep.node]
           /\ IF Failed(err)
              THEN /\ events' = sendEvent(events, w, v, "DependencyFailure")
                   /\ waitErr' = [waitErr EXCEPT ![w] =
                          Wrap("dependency failed to deploy", dep.node, err)]
                   /\ workerPC' = [workerPC EXCEPT ![w] = "cancel"]
                   /\ UNCHANGED dependencies
              ELSE IF dep.WaitForHealthy
              THEN /\ workerPC' = [workerPC EXCEPT ![w] = "waitHealthy"]
                   /\ UNCHANGED <<events, waitErr, dependencies>>
              ELSE /\ events' = sendEvent(events, w, v, "DependencySuccess")
                   /\ dependencies' = [dependencies EXCEPT ![w] = Tail(@)]
                   /\ UNCHANGED <<workerPC, waitErr>>
    /\ UNCHANGED <<configVars, mainVars, errorsChan, stats, deployment, nodeVars,
                   adapterVars, counted, firstError>>

\* the wait loop of workerDeploy, for a wait_for_healthy dependency:
\* dependency.Deployment.WaitUntilHealthy() blocks until healthyChan is closed
WaitHealthy(w) ==
    /\ workerPC[w] = "waitHealthy"
    /\ LET v == deployment[w]
           dep == Head(dependencies[w])
           err == WaitUntilHealthy(dep.node)
       IN  /\ healthyChanClosed[dep.node]
           /\ IF Failed(err)
              THEN /\ events' = sendEvent(events, w, v, "DependencyFailure")
                   /\ waitErr' = [waitErr EXCEPT ![w] =
                          Wrap("dependency failed to become healthy", dep.node, err)]
                   /\ workerPC' = [workerPC EXCEPT ![w] = "cancel"]
                   /\ UNCHANGED dependencies
              ELSE /\ events' = sendEvent(events, w, v, "DependencySuccess")
                   /\ dependencies' = [dependencies EXCEPT ![w] = Tail(@)]
                   /\ workerPC' = [workerPC EXCEPT ![w] = "wait"]
                   /\ UNCHANGED waitErr
    /\ UNCHANGED <<configVars, mainVars, errorsChan, stats, deployment, nodeVars,
                   adapterVars, counted, firstError>>

\* ----------------------------------------------------- Deployment.deploy
\* EventDeploymentStarted, then deployment.deploy(): the swap Ready ->
\* Deploying and, in _deployPhase, the call of the adapter's Deploy.
StartDeploy(w) ==
    /\ workerPC[w] = "wait"
    /\ dependencies[w] = <<>>
    /\ LET v == deployment[w] IN
       /\ events' = sendEvent(events, w, v, "DeploymentStarted")
       /\ status' = [status EXCEPT ![v] = swapStatus(@, "Ready", "Deploying")]
       /\ IF swaps(status[v], "Ready")
          THEN /\ deployCalls' = [deployCalls EXCEPT ![v] = @ + 1]
               /\ workerPC' = [workerPC EXCEPT ![w] = "deployPhase"]
               /\ UNCHANGED waitErr
          ELSE /\ waitErr' = [waitErr EXCEPT ![w] =
                      <<<<"deployment is not ready or already started", v>>>>]
               /\ workerPC' = [workerPC EXCEPT ![w] = "cancel"]
               /\ UNCHANGED deployCalls
    /\ UNCHANGED <<configVars, mainVars, errorsChan, stats, deployment,
                   dependencies, deployChanClosed, healthyChanClosed, deployError,
                   healthyError, healthCalls, deployResult, healthResult, counted,
                   firstError>>

\* Deployment._deployPhase: the adapter's Deploy returns (ok or not), the
\* error is stored, deployMutex is unlocked and deployChan is closed.
deployPhase(w) ==
    /\ workerPC[w] = "deployPhase"
    /\ LET v == deployment[w] IN
       \E ok \in BOOLEAN :
           LET err == IF ok THEN Nil
                      ELSE Wrap("failed to deploy to framework", v, AdapterError(v))
           IN  /\ deployResult' = [deployResult EXCEPT ![v] = IF ok THEN "ok" ELSE "err"]
               /\ deployError' = [deployError EXCEPT ![v] = IF ok THEN @ ELSE err]
               /\ deployChanClosed' = [deployChanClosed EXCEPT ![v] = TRUE]
               /\ waitErr' = [waitErr EXCEPT ![w] = err]
    /\ workerPC' = [workerPC EXCEPT ![w] = "deployed"]
    /\ UNCHANGED <<configVars, mainVars, errorsChan, stats, deployment,
                   dependencies, status, healthyChanClosed, healthyError,
                   deployCalls, healthCalls, healthResult, events, counted,
                   firstError>>

\* mutant: deploy() goes on to the health phase whatever _deployPhase returned
deployPhaseFailedIgnored(err) == FALSE

\* deploy(), `if err != nil` after `err := d._deployPhase()`
deployPhaseFailed(err) == err # Nil

\* mutant: deploy() returns the error of _deployPhase without a new status
AfterDeployPhaseStatusKept(w) ==
    /\ workerPC[w] = "deployed"
    /\ LET v == deployment[w] IN
       IF deployPhaseFailed(waitErr[w])
       THEN /\ workerPC' = [workerPC EXCEPT ![w] = "cancel"]
            /\ UNCHANGED <<status, healthCalls>>
       ELSE /\ status' = [status EXCEPT ![v] = "WaitingUntilHealthy"]
            /\ healthCalls' = [healthCalls EXCEPT ![v] = @ + 1]
            /\ workerPC' = [workerPC EXCEPT ![w] = "healthPhase"]
    /\ UNCHANGED <<configVars, mainVars, errorsChan, stats, deployment,
                   dependencies, waitErr, deployChanClosed, healthyChanClosed,
                   deployError, healthyError, deployCalls, deployResult,
                   healthResult, events, counted, firstError>>

\* deploy() after _deployPhase: on an error the status becomes DeployError
\* and deploy returns it; otherwise the status becomes WaitingUntilHealthy
\* and _healthPhase calls the adapter's WaitUntilHealthy.
AfterDeployPhase(w) ==
    /\ workerPC[w] = "deployed"
    /\ LET v == deployment[w] IN
       IF deployPhaseFailed(waitErr[w])
       THEN /\ status' = [status EXCEPT ![v] = "DeployError"]
            /\ workerPC' = [workerPC EXCEPT ![w] = "cancel"]
            /\ UNCHANGED healthCalls
       ELSE /\ status' = [status EXCEPT ![v] = "WaitingUntilHealthy"]
            /\ healthCalls' = [healthCalls EXCEPT ![v] = @ + 1]
            /\ workerPC' = [workerPC EXCEPT ![w] = "healthPhase"]
    /\ UNCHANGED <<configVars, mainVars, errorsChan, stats, deployment,
                   dependencies, waitErr, deployChanClosed, healthyChanClosed,
                   deployError, healthyError, deployCalls, deployResult,
                   healthResult, events, counted, firstError>>

\* Deployment._healthPhase: the adapter's WaitUntilHealthy returns, the error
\* is stored, healthyMutex is unlocked and healthyChan is closed.
healthPhase(w) ==
    /\ workerPC[w] = "healthPhase"
    /\ LET v == deployment[w] IN
       \E ok \in BOOLEAN :
           LET err == IF ok THEN Nil
                      ELSE Wrap("failed to wait until framework considered deployment healthy",
                                v, AdapterError(v))
           IN  /\ healthResult' = [healthResult EXCEPT ![v] = IF ok THEN "ok" ELSE "err"]
               /\ healthyError' = [healthyError EXCEPT ![v] = IF ok THEN @ ELSE err]
               /\ healthyChanClosed' = [healthyChanClosed EXCEPT ![v] = TRUE]
               /\ waitErr' = [waitErr EXCEPT ![w] = err]
    /\ workerPC' = [workerPC EXCEPT ![w] = "healthChecked"]
    /\ UNCHANGED <<configVars, mainVars, errorsChan, stats, deployment,
                   dependencies, status, deployChanClosed, deployError,
                   deployCalls, healthCalls, deployResult, events, counted,
                   firstError>>

\* mutant: a failed health phase makes the deployment Ready again
AfterHealthPhaseReady(w) ==
    /\ workerPC[w] = "healthChecked"
    /\ LET v == deployment[w] IN
       IF waitErr[w] # Nil
       THEN /\ status' = [status EXCEPT ![v] = "Ready"]
            /\ workerPC' = [workerPC EXCEPT ![w] = "cancel"]
       ELSE /\ status' = [status EXCEPT ![v] = "Healthy"]
            /\ workerPC' = [workerPC EXCEPT ![w] = "success"]
    /\ UNCHANGED <<configVars, mainVars, errorsChan, stats, deployment,
                   dependencies, waitErr, deployChanClosed, healthyChanClosed,
                   deployError, healthyError, adapterVars, events, counted,
                   firstError>>

\* deploy() after _healthPhase: HealthError and the error, or Healthy and nil
AfterHealthPhase(w) ==
    /\ workerPC[w] = "healthChecked"
    /\ LET v == deployment[w] IN
       IF waitErr[w] # Nil
       THEN /\ status' = [status EXCEPT ![v] = "HealthError"]
            /\ workerPC' = [workerPC EXCEPT ![w] = "cancel"]
       ELSE /\ status' = [status EXCEPT ![v] = "Healthy"]
            /\ workerPC' = [workerPC EXCEPT ![w] = "success"]
    /\ UNCHANGED <<configVars, mainVars, errorsChan, stats, deployment,
                   dependencies, waitErr, deployChanClosed, healthyChanClosed,
                   deployError, healthyError, adapterVars, events, counted,
                   firstError>>

\* ----------------------------------------------------- Deployment.cancel
\* mutant: cancel releases the signals without storing the error
cancelWithoutError(w) ==
    /\ workerPC[w] = "cancel"
    /\ LET v == deployment[w] IN
       IF swaps(status[v], "Ready")
       THEN /\ status' = [status EXCEPT ![v] = swapStatus(@, "Ready", "Canceled")]
            /\ deployChanClosed' = [deployChanClosed EXCEPT ![v] = TRUE]
            /\ healthyChanClosed' = [healthyChanClosed EXCEPT ![v] = TRUE]
            /\ UNCHANGED <<deployError, healthyError>>
       ELSE UNCHANGED nodeVars
    /\ workerPC' = [workerPC EXCEPT ![w] = "report"]
    /\ UNCHANGED <<configVars, mainVars, errorsChan, stats, deployment,
                   dependencies, waitErr, adapterVars, events, counted, firstError>>

\* workerMain, `_ = deployment.cancel(err)`: only from Ready; stores err as
\* the deploy error and closes both channels.  It changes nothing when the
\* deployment has started already.
cancel(w) ==
    /\ workerPC[w] = "cancel"
    /\ LET v == deployment[w] IN
       IF swaps(status[v], "Ready")
       THEN /\ status' = [status EXCEPT ![v] = swapStatus(@, "Ready", "Canceled")]
            /\ deployError' = [deployError EXCEPT ![v] = waitErr[w]]
            /\ deployChanClosed' = [deployChanClosed EXCEPT ![v] = TRUE]
            /\ healthyChanClosed' = [healthyChanClosed EXCEPT ![v] = TRUE]
            /\ UNCHANGED healthyError
       ELSE UNCHANGED nodeVars
    /\ workerPC' = [workerPC EXCEPT ![w] = "report"]
    /\ UNCHANGED <<configVars, mainVars, errorsChan, stats, deployment,
                   dependencies, waitErr, adapterVars, events, counted, firstError>>

\* workerMain, the failure branch after cancel: count the failure, offer the
\* wrapped error to errorsChan, send EventDeploymentFailure.
ReportFailure(w) ==
    /\ workerPC[w] = "report"
    /\ LET v == deployment[w]
           err == Wrap("deploying", v, waitErr[w])
       IN  /\ stats' = countFailure(stats, errorsChan)
           /\ errorsChan' = sendError(errorsChan, err)
           /\ firstError' = IF firstError = Nil THEN err ELSE firstError
           /\ events' = sendEvent(events, w, v, "DeploymentFailure")
           /\ counted' = [counted EXCEPT ![v] = "failed"]
    /\ workerPC' = [workerPC EXCEPT ![w] = "idle"]
    /\ deployment' = [deployment EXCEPT ![w] = 0]
    /\ dependencies' = [dependencies EXCEPT ![w] = <<>>]
    /\ waitErr' = [waitErr EXCEPT ![w] = Nil]
    /\ UNCHANGED <<configVars, mainVars, nodeVars, adapterVars>>

\* mutant: the success is counted and no event is sent for it
ReportSuccessUnsent(w) ==
    /\ workerPC[w] = "success"
    /\ LET v == deployment[w] IN
       /\ stats' = [stats EXCEPT !.SuccessfulDeployments = @ + 1]
       /\ counted' = [counted EXCEPT ![v] = "successful"]
    /\ workerPC' = [workerPC EXCEPT ![w] = "idle"]
    /\ deployment' = [deployment EXCEPT ![w] = 0]
    /\ UNCHANGED <<configVars, mainVars, errorsChan, dependencies, waitErr,
                   nodeVars, adapterVars, firstError, events>>

\* workerMain, the success branch: count it and send EventDeploymentSuccess
ReportSuccess(w) ==
    /\ workerPC[w] = "success"
    /\ LET v == deployment[w] IN
       /\ stats' = [stats EXCEPT !.SuccessfulDeployments = @ + 1]
       /\ events' = sendEvent(events, w, v, "DeploymentSuccess")
       /\ counted' = [counted EXCEPT ![v] = "successful"]
    /\ workerPC' = [workerPC EXCEPT ![w] = "idle"]
    /\ deployment' = [deployment EXCEPT ![w] = 0]
    /\ UNCHANGED <<configVars, mainVars, errorsChan, dependencies, waitErr,
                   nodeVars, adapterVars, firstError>>

\* ------------------------------------------------------------ next state
Next ==
    \/ Setup
    \/ EmitEnqueued
    \/ CloseWorkChan
    \/ Return
    \/ \E w \in Workers : Dequeue(w)
    \/ \E w \in Workers : WorkerExit(w)
    \/ \E w \in Workers : WaitDeployed(w)
    \/ \E w \in Workers : WaitHealthy(w)
    \/ \E w \in Workers : StartDeploy(w)
    \/ \E w \in Workers : deployPhase(w)
    \/ \E w \in Workers : AfterDeployPhase(w)
    \/ \E w \in Workers : healthPhase(w)
    \/ \E w \in Workers : AfterHealthPhase(w)
    \/ \E w \in Workers : cancel(w)
    \/ \E w \in Workers : ReportFailure(w)
    \/ \E w \in Workers : ReportSuccess(w)

Spec == Init /\ [][Next]_vars

\* Goroutines that can run are run, adapter calls return and the observer
\* keeps receiving: some enabled step is eventually taken.
FairSpec == Spec /\ WF_vars(Next)

\* ------------------------------------------------ a panic of the adapter
\* _deployPhase when the adapter's Deploy panics: no error is stored; the
\* deferred Unlock and close(d.deployChan) run while the panic unwinds.
deployPanic(w) ==
    /\ workerPC[w] = "deployPhase"
    /\ LET v == deployment[w] IN
       /\ deployResult' = [deployResult EXCEPT ![v] = "panic"]
       /\ deployChanClosed' = [deployChanClosed EXCEPT ![v] = TRUE]
    /\ workerPC' = [workerPC EXCEPT ![w] = "panicking"]
    /\ UNCHANGED <<configVars, mainVars, errorsChan, stats, deployment,
                   dependencies, waitErr, status, healthyChanClosed, deployError,
                   healthyError, deployCalls, healthCalls, healthResult, events,
                   counted, firstError>>

\* _healthPhase when the adapter's WaitUntilHealthy panics
healthPanic(w) ==
    /\ workerPC[w] = "healthPhase"
    /\ LET v == deployment[w] IN
       /\ healthResult' = [healthResult EXCEPT ![v] = "panic"]
       /\ healthyChanClosed' = [healthyChanClosed EXCEPT ![v] = TRUE]
    /\ workerPC' = [workerPC EXCEPT ![w] = "panicking"]
    /\ UNCHANGED <<configVars, mainVars, errorsChan, stats, deployment,
                   dependencies, waitErr, status, deployChanClosed, deployError,
                   healthyError, deployCalls, healthCalls, deployResult, events,
                   counted, firstError>>

\* mutant: the deferred function recovers and the worker carries on
RepanicContained(w) ==
    /\ workerPC[w] = "panicking"
    /\ status' = [status EXCEPT ![deployment[w]] = "Panic"]
    /\ workerPC' = [workerPC EXCEPT ![w] = "success"]
    /\ UNCHANGED <<configVars, mainVars, errorsChan, stats, deployment,
                   dependencies, waitErr, deployChanClosed, healthyChanClosed,
                   deployError, healthyError, adapterVars, events, counted,
                   firstError>>

\* deploy(), the deferred function: recover, _setStatus(StatusPanic) and
\* panic(r).  Neither workerDeploy nor workerMain recovers, so the panic
\* leaves the goroutine of the worker and ends the process: no goroutine
\* takes another step.
Repanic(w) ==
    /\ workerPC[w] = "panicking"
    /\ status' = [status EXCEPT ![deployment[w]] = "Panic"]
    /\ workerPC' = [x \in DOMAIN workerPC |->
                       IF workerPC[x] = "unused" THEN "unused" ELSE "crashed"]
    /\ mainPC' = "crashed"
    /\ UNCHANGED <<configVars, deployOrder, next, workChanClosed, eventsChanClosed,
                   result, errorsChan, stats, deployment, dependencies, waitErr,
                   deployChanClosed, healthyChanClosed, deployError, healthyError,
                   adapterVars, events, counted, firstError>>

NextPanic ==
    \/ Next
    \/ \E w \in Workers : deployPanic(w)
    \/ \E w \in Workers : healthPanic(w)
    \/ \E w \in Workers : Repanic(w)

PanicSpec == Init /\ [][NextPanic]_vars

\* Deploy on any graph, the ones DeployOrder refuses included
NextCyclic ==
    \/ Next
    \/ RefuseOrder
    \/ DeferredClose
    \/ PanicOrder

CyclicSpec == InitCyclic /\ [][NextCyclic]_vars

FairCyclicSpec == CyclicSpec /\ WF_vars(NextCyclic)

\* ------------------------------------------------------------ the diamond
\* the diamond: vertex 4 depends on 2 and on 3, which both depend on 1 (a
\* dependency sits before its dependents in the numbering of the executor)
DiamondEdges == {<<4, 2>>, <<4, 3>>, <<2, 1>>, <<3, 1>>}

\* the diamond with every choice of wait_for_healthy on its four edges
Diamonds == {[nil |-> FALSE, n |-> 4, cost |-> c] : c \in [DiamondEdges -> {0, 1}]}

\* a deployer for the diamond
InitDiamond ==
    /\ graph \in Diamonds
    /\ maxDeploy \in 1..MaxWorkers
    /\ eventsChanNil \in BOOLEAN
    /\ Constructed
    /\ input = <<>>
    /\ Declared
    /\ NotCalled
    /\ NoCallers

DiamondSpec == InitDiamond /\ [][Next]_vars

\* ------------------------------------------------- any concurrency bound
\* the values of maxDeploy: main hands the -maxDeploy flag to
\* NewGraphDeployer, which stores it unchecked
MaxDeployValues == -1..MaxWorkers

\* a deployer for a DAG with any of these bounds
InitAnyBound ==
    /\ graph \in Graphs
    /\ maxDeploy \in MaxDeployValues
    /\ eventsChanNil \in BOOLEAN
    /\ Constructed
    /\ input = <<>>
    /\ Declared
    /\ NotCalled
    /\ NoCallers

AnyBoundSpec == InitAnyBound /\ [][Next]_vars

FairAnyBoundSpec == AnyBoundSpec /\ WF_vars(Next)

\* =================================================================
\* model.Graph: Build and the queries, called one after the other
\* =================================================================
\* graph.Build(deployments...): the first call is given the input, a later
\* call one of SecondCalls
CallBuild ==
    /\ buildCalls < MaxBuilds
    /\ \E deployments \in IF buildCalls = 0 THEN {input} ELSE SecondCalls :
           LET r == Build(modelGraph, deployments) IN
           /\ modelGraph' = r.g
           /\ buildErr' = r.err
           /\ lastArg' = deployments
    /\ before' = modelGraph
    /\ buildCalls' = buildCalls + 1
    /\ answer' = NoAnswer
    /\ UNCHANGED <<input, callVars, callerVars, execVars>>

\* graph.Cycles().  A query leaves the Graph as it is, so its result does
\* not depend on the queries before it: the history variable answer keeps
\* one query, asked of the Graph as the last Build left it.
CallCycles ==
    /\ buildCalls > 0
    /\ answer = NoAnswer
    /\ \E r \in Cycles(modelGraph) :
           answer' = [op |-> "Cycles", ref |-> <<>>, panic |-> r.panic,
                      err |-> Nil, value |-> r.cycles]
    /\ UNCHANGED <<input, modelGraph, buildCalls, lastArg, buildErr, before,
                   callVars, callerVars, execVars>>

\* graph.DeployOrder()
CallDeployOrder ==
    /\ buildCalls > 0
    /\ answer = NoAnswer
    /\ \E r \in DeployOrderRefs(modelGraph) :
           answer' = [op |-> "DeployOrder", ref |-> <<>>, panic |-> r.panic,
                      err |-> r.err, value |-> r.deployments]
    /\ UNCHANGED <<input, modelGraph, buildCalls, lastArg, buildErr, before,
                   callVars, callerVars, execVars>>

\* graph.Dependencies(ref)
CallDependencies ==
    /\ buildCalls > 0
    /\ answer = NoAnswer
    /\ \E ref \in QueryRefs :
           \E r \in DependenciesOf(modelGraph, ref) :
               answer' = [op |-> "Dependencies", ref |-> ref, panic |-> FALSE,
                          err |-> r.err, value |-> r.dependencies]
    /\ UNCHANGED <<input, modelGraph, buildCalls, lastArg, buildErr, before,
                   callVars, callerVars, execVars>>

NextBuild ==
    \/ CallBuild
    \/ CallCycles
    \/ CallDeployOrder
    \/ CallDependencies

BuildSpec == InitBuild /\ [][NextBuild]_vars

\* ------------------------------------------------------------- main.run
ErrCyclesDetected == <<<<"dependency cycle(s) detected", 0>>>>
ErrDeployingGraph == <<<<"deploying graph", 0>>>>

\* run(), the deployment: graphDeployer.Deploy(events) returns the error of
\* DeployOrder before anything is deployed, or deploys and returns nil or
\* the first error of the mock adapter; run wraps the error it is given
deployGraph(G) ==
    UNION {IF o.panic THEN {[panic |-> TRUE, err |-> Nil, performed |-> "none"]}
           ELSE IF o.err # Nil
           THEN {[panic |-> FALSE, performed |-> "none",
                  err |-> ErrDeployingGraph
                              \o Wrap("resolving deployment order", 0, o.err)]}
           ELSE {[panic |-> FALSE, performed |-> "deployment", err |-> e] :
                    e \in {Nil, ErrDeployingGraph}} :
           o \in DeployOrderRefs(G)}

\* run(), the dry run: the deploy order is listed, each deployment with its
\* dependencies, unless DeployOrder returns an error
listGraph(G) ==
    {IF o.panic THEN [panic |-> TRUE, err |-> Nil, performed |-> "none"]
     ELSE IF o.err # Nil THEN [panic |-> FALSE, err |-> o.err, performed |-> "none"]
     ELSE [panic |-> FALSE, err |-> Nil, performed |-> "listing"] :
        o \in DeployOrderRefs(G)}

\* run() after graph.Build: the cycle check, then the dry run or the
\* deployment
afterBuild(G, flagDryRun) ==
    UNION {IF c.panic THEN {[panic |-> TRUE, err |-> Nil, performed |-> "none"]}
           ELSE IF Len(c.cycles) # 0
           THEN {[panic |-> FALSE, err |-> ErrCyclesDetected, performed |-> "none"]}
           ELSE IF flagDryRun THEN listGraph(G)
           ELSE deployGraph(G) :
           c \in Cycles(G)}

\* run(), from `var graph model.Graph` on: graph.Build(root.Deployments...)
\* is called as a statement, what it returns is dropped
CallRun ==
    /\ buildCalls = 0
    /\ LET r == Build(modelGraph, input) IN
       /\ modelGraph' = r.g
       /\ buildErr' = r.err
       /\ \E flagDryRun \in BOOLEAN :
              \E o \in afterBuild(r.g, flagDryRun) :
                  answer' = [op |-> "run", ref |-> <<>>, panic |-> o.panic,
                             err |-> o.err,
                             value |-> [performed |-> o.performed,
                                        flagDryRun |-> flagDryRun]]
    /\ lastArg' = input
    /\ before' = modelGraph
    /\ buildCalls' = 1
    /\ UNCHANGED <<input, callVars, callerVars, execVars>>

RunSpec == InitBuild /\ [][CallRun]_vars

\* ------------------------------------------- the functions of the resolver
\* filterMatches(filter, deployment)
CallFilterMatches ==
    /\ call.fn = "filterMatches"
    /\ returned = NotReturned
    /\ returned' = filterMatches(call.filter, call.d)
    /\ UNCHANGED <<call, graphVars, callerVars, execVars>>

\* globToRegexp(glob)
CallGlobToRegexp ==
    /\ call.fn = "globToRegexp"
    /\ returned = NotReturned
    /\ returned' = globToRegexp(call.glob)
    /\ UNCHANGED <<call, graphVars, callerVars, execVars>>

\* findDependents(dependency, deployments)
CallFindDependents ==
    /\ call.fn = "findDependents"
    /\ returned = NotReturned
    /\ returned' = findDependents(call.dependency, call.deployments)
    /\ UNCHANGED <<call, graphVars, callerVars, execVars>>

NextResolver ==
    \/ CallFilterMatches
    \/ CallGlobToRegexp
    \/ CallFindDependents

ResolverSpec == InitCall /\ [][NextResolver]_vars

\* ----------------------------------- a Deployment called by any goroutines
\* The methods of one Deployment, called in any order and at any time by
\* MaxCallers goroutines, each in the steps other goroutines can come
\* between.  As in Deploy, ready() has returned before another method is
\* called: it sets the fields of the Deployment after its swap.
Callers == 1..MaxCallers
TheDeployment == 1
CancelErrors ==
    {<<<<"dependency failed to deploy", 0>>>>, <<<<"dependency failed to become healthy", 0>>>>}
ErrNotReadyOrStarted == <<<<"deployment is not ready or already started", TheDeployment>>>>
ErrAlreadyReadied == <<<<"deployment is already readied", TheDeployment>>>>

InitCallers ==
    /\ graph = [nil |-> FALSE, n |-> 1, cost |-> <<>>]
    /\ maxDeploy = 1
    /\ eventsChanNil = FALSE
    /\ Constructed
    /\ input = <<>>
    /\ Declared
    /\ NotCalled
    /\ callerPC = [c \in Callers |-> "idle"]
    /\ callerErr = [c \in Callers |-> Nil]
    /\ lastCall = [caller |-> 0, op |-> "none", refused |-> FALSE, turn |-> 0]
    /\ winners = {}
    /\ losers = {}
    /\ seenDeploy = {}
    /\ seenHealthy = {}

\* what no method of a Deployment touches
deployerVars ==
    <<graph, maxDeploy, eventsChanNil, graphVars, callVars, mainVars, errorsChan,
      stats, workerPC, deployment, dependencies, waitErr, events, counted,
      firstError>>

ReadyInProgress == \E c \in Callers : callerPC[c] = "ready"

\* the call of op by c starts, and is refused or not
Called(c, op, refused) ==
    lastCall' = [caller |-> c, op |-> op, refused |-> refused,
                 turn |-> 1 - lastCall.turn]

\* mutant: a refused call stores its error as the deploy error
RefuseStoring(c, op, err) ==
    /\ callerErr' = [callerErr EXCEPT ![c] = err]
    /\ Called(c, op, TRUE)
    /\ losers' = IF op = "ready" THEN losers ELSE losers \cup {[caller |-> c, op |-> op]}
    /\ deployError' = [deployError EXCEPT ![TheDeployment] = err]
    /\ UNCHANGED <<callerPC, winners, status, deployChanClosed, healthyChanClosed,
                   healthyError, adapterVars>>

\* the call returns an error without having done anything
Refuse(c, op, err) ==
    /\ callerErr' = [callerErr EXCEPT ![c] = err]
    /\ Called(c, op, TRUE)
    /\ losers' = IF op = "ready" THEN losers ELSE losers \cup {[caller |-> c, op |-> op]}
    /\ UNCHANGED <<callerPC, winners, nodeVars, adapterVars>>

\* ready(), up to the swap NotReady -> Ready
CallerReady(c) ==
    /\ callerPC[c] = "idle"
    /\ IF swaps(status[TheDeployment], "NotReady")
       THEN /\ status' = [status EXCEPT ![TheDeployment] = swapStatus(@, "NotReady", "Ready")]
            /\ callerPC' = [callerPC EXCEPT ![c] = "ready"]
            /\ callerErr' = [callerErr EXCEPT ![c] = Nil]
            /\ Called(c, "ready", FALSE)
            /\ UNCHANGED <<winners, losers, deployChanClosed, healthyChanClosed,
                           deployError, healthyError, adapterVars>>
       ELSE Refuse(c, "ready", ErrAlreadyReadied)
    /\ UNCHANGED <<deployerVars, seenDeploy, seenHealthy>>

\* ready() after the swap: ref, deployer and the two channels are set, then
\* _setStatus(StatusReady)
CallerReadyInit(c) ==
    /\ callerPC[c] = "ready"
    /\ status' = [status EXCEPT ![TheDeployment] = "Ready"]
    /\ callerPC' = [callerPC EXCEPT ![c] = "idle"]
    /\ UNCHANGED <<deployerVars, callerErr, lastCall, winners, losers, seenDeploy,
                   seenHealthy, deployChanClosed, healthyChanClosed, deployError,
                   healthyError, adapterVars>>

\* deploy(), up to the swap Ready -> Deploying; then _deployPhase calls the
\* adapter's Deploy
CallerDeploy(c) ==
    /\ callerPC[c] = "idle"
    /\ ~ReadyInProgress
    /\ IF swaps(status[TheDeployment], "Ready")
       THEN /\ status' = [status EXCEPT ![TheDeployment] = swapStatus(@, "Ready", "Deploying")]
            /\ deployCalls' = [deployCalls EXCEPT ![TheDeployment] = @ + 1]
            /\ callerPC' = [callerPC EXCEPT ![c] = "deployPhase"]
            /\ callerErr' = [callerErr EXCEPT ![c] = Nil]
            /\ Called(c, "deploy", FALSE)
            /\ winners' = winners \cup {[caller |-> c, op |-> "deploy"]}
            /\ UNCHANGED <<losers, deployChanClosed, healthyChanClosed, deployError,
                           healthyError, healthCalls, deployResult, healthResult>>
       ELSE Refuse(c, "deploy", ErrNotReadyOrStarted)
    /\ UNCHANGED <<deployerVars, seenDeploy, seenHealthy>>

\* close(ch) by c: closing a closed channel panics
closeChan(closed, c, pc) ==
    /\ closed' = [closed EXCEPT ![TheDeployment] = TRUE]
    /\ callerPC' = [callerPC EXCEPT ![c] = IF closed[TheDeployment] THEN "closePanic" ELSE pc]

\* deployMutex and healthyMutex are held by the goroutine that is inside the
\* adapter call of the phase; cancel and the two waits hold them only for
\* the one assignment or read they guard
DeployMutexHeld == \E c \in Callers : callerPC[c] = "deployLocked"
HealthyMutexHeld == \E c \in Callers : callerPC[c] = "healthLocked"

\* _deployPhase: d.deployMutex.Lock(), then the adapter's Deploy is called
CallerDeployLock(c) ==
    /\ callerPC[c] = "deployPhase"
    /\ ~DeployMutexHeld
    /\ callerPC' = [callerPC EXCEPT ![c] = "deployLocked"]
    /\ UNCHANGED <<deployerVars, callerErr, lastCall, winners, losers, seenDeploy,
                   seenHealthy, nodeVars, adapterVars>>

\* mutant: the error of the adapter's Deploy is returned and not stored
CallerDeployPhaseUnstored(c) ==
    /\ callerPC[c] = "deployLocked"
    /\ \E ok \in BOOLEAN :
           LET err == IF ok THEN Nil
                      ELSE Wrap("failed to deploy to framework", TheDeployment,
                                AdapterError(TheDeployment))
           IN  /\ deployResult' = [deployResult EXCEPT ![TheDeployment] = IF ok THEN "ok" ELSE "err"]
               /\ callerErr' = [callerErr EXCEPT ![c] = err]
    /\ callerPC' = [callerPC EXCEPT ![c] = "deployClose"]
    /\ UNCHANGED <<deployerVars, lastCall, winners, losers, seenDeploy, seenHealthy,
                   status, deployChanClosed, healthyChanClosed, deployError,
                   healthyError, deployCalls, healthCalls, healthResult>>

\* _deployPhase: the adapter's Deploy returns, its error is stored in
\* d.deployError and the deferred Unlock runs
CallerDeployPhase(c) ==
    /\ callerPC[c] = "deployLocked"
    /\ \E ok \in BOOLEAN :
           LET err == IF ok THEN Nil
                      ELSE Wrap("failed to deploy to framework", TheDeployment,
                                AdapterError(TheDeployment))
           IN  /\ deployResult' = [deployResult EXCEPT ![TheDeployment] = IF ok THEN "ok" ELSE "err"]
               /\ deployError' = [deployError EXCEPT ![TheDeployment] = IF ok THEN @ ELSE err]
               /\ callerErr' = [callerErr EXCEPT ![c] = err]
    /\ callerPC' = [callerPC EXCEPT ![c] = "deployClose"]
    /\ UNCHANGED <<deployerVars, lastCall, winners, losers, seenDeploy, seenHealthy,
                   status, deployChanClosed, healthyChanClosed, healthyError,
                   deployCalls, healthCalls, healthResult>>

\* _deployPhase: the deferred close(d.deployChan), the last thing it does
CallerDeployClose(c) ==
    /\ callerPC[c] = "deployClose"
    /\ closeChan(deployChanClosed, c, "deployed")
    /\ UNCHANGED <<deployerVars, callerErr, lastCall, winners, losers, seenDeploy,
                   seenHealthy, status, healthyChanClosed, deployError, healthyError,
                   adapterVars>>

\* deploy() after _deployPhase
CallerAfterDeployPhase(c) ==
    /\ callerPC[c] = "deployed"
    /\ IF deployPhaseFailed(callerErr[c])
       THEN /\ status' = [status EXCEPT ![TheDeployment] = "DeployError"]
            /\ callerPC' = [callerPC EXCEPT ![c] = "idle"]
            /\ UNCHANGED healthCalls
       ELSE /\ status' = [status EXCEPT ![TheDeployment] = "WaitingUntilHealthy"]
            /\ healthCalls' = [healthCalls EXCEPT ![TheDeployment] = @ + 1]
            /\ callerPC' = [callerPC EXCEPT ![c] = "healthPhase"]
    /\ UNCHANGED <<deployerVars, callerErr, lastCall, winners, losers, seenDeploy,
                   seenHealthy, deployChanClosed, healthyChanClosed, deployError,
                   healthyError, deployCalls, deployResult, healthResult>>

\* _healthPhase: d.healthyMutex.Lock(), then the adapter's WaitUntilHealthy
\* is called
CallerHealthLock(c) ==
    /\ callerPC[c] = "healthPhase"
    /\ ~HealthyMutexHeld
    /\ callerPC' = [callerPC EXCEPT ![c] = "healthLocked"]
    /\ UNCHANGED <<deployerVars, callerErr, lastCall, winners, losers, seenDeploy,
                   seenHealthy, nodeVars, adapterVars>>

\* _healthPhase: the adapter's WaitUntilHealthy returns, its error is stored
\* in d.healthyError and the deferred Unlock runs
CallerHealthPhase(c) ==
    /\ callerPC[c] = "healthLocked"
    /\ \E ok \in BOOLEAN :
           LET err == IF ok THEN Nil
                      ELSE Wrap("failed to wait until framework considered deployment healthy",
                                TheDeployment, AdapterError(TheDeployment))
           IN  /\ healthResult' = [healthResult EXCEPT ![TheDeployment] = IF ok THEN "ok" ELSE "err"]
               /\ healthyError' = [healthyError EXCEPT ![TheDeployment] = IF ok THEN @ ELSE err]
               /\ callerErr' = [callerErr EXCEPT ![c] = err]
    /\ callerPC' = [callerPC EXCEPT ![c] = "healthClose"]
    /\ UNCHANGED <<deployerVars, lastCall, winners, losers, seenDeploy, seenHealthy,
                   status, deployChanClosed, healthyChanClosed, deployError,
                   deployCalls, healthCalls, deployResult>>

\* _healthPhase: the deferred close(d.healthyChan), the last thing it does
CallerHealthClose(c) ==
    /\ callerPC[c] = "healthClose"
    /\ closeChan(healthyChanClosed, c, "healthChecked")
    /\ UNCHANGED <<deployerVars, callerErr, lastCall, winners, losers, seenDeploy,
                   seenHealthy, status, deployChanClosed, deployError, healthyError,
                   adapterVars>>

\* deploy() after _healthPhase
CallerAfterHealthPhase(c) ==
    /\ callerPC[c] = "healthChecked"
    /\ status' = [status EXCEPT ![TheDeployment] =
                      IF callerErr[c] # Nil THEN "HealthError" ELSE "Healthy"]
    /\ callerPC' = [callerPC EXCEPT ![c] = "idle"]
    /\ UNCHANGED <<deployerVars, callerErr, lastCall, winners, losers, seenDeploy,
                   seenHealthy, deployChanClosed, healthyChanClosed, deployError,
                   healthyError, adapterVars>>

\* mutant: cancel stores Canceled whatever the status of a readied deployment
CallerCancelUnconditional(c) ==
    /\ callerPC[c] = "idle"
    /\ ~ReadyInProgress
    /\ \E err \in CancelErrors :
           IF status[TheDeployment] # "NotReady"
           THEN /\ status' = [status EXCEPT ![TheDeployment] = "Canceled"]
                /\ callerPC' = [callerPC EXCEPT ![c] = "cancelStore"]
                /\ callerErr' = [callerErr EXCEPT ![c] = err]
                /\ Called(c, "cancel", FALSE)
                /\ winners' = winners \cup {[caller |-> c, op |-> "cancel"]}
                /\ UNCHANGED <<losers, deployChanClosed, healthyChanClosed, deployError,
                               healthyError, adapterVars>>
           ELSE Refuse(c, "cancel", ErrNotReadyOrStarted)
    /\ UNCHANGED <<deployerVars, seenDeploy, seenHealthy>>

\* cancel(err), up to the swap Ready -> Canceled
CallerCancel(c) ==
    /\ callerPC[c] = "idle"
    /\ ~ReadyInProgress
    /\ \E err \in CancelErrors :
           IF swaps(status[TheDeployment], "Ready")
           THEN /\ status' = [status EXCEPT ![TheDeployment] = swapStatus(@, "Ready", "Canceled")]
                /\ callerPC' = [callerPC EXCEPT ![c] = "cancelStore"]
                /\ callerErr' = [callerErr EXCEPT ![c] = err]
                /\ Called(c, "cancel", FALSE)
                /\ winners' = winners \cup {[caller |-> c, op |-> "cancel"]}
                /\ UNCHANGED <<losers, deployChanClosed, healthyChanClosed, deployError,
                               healthyError, adapterVars>>
           ELSE Refuse(c, "cancel", ErrNotReadyOrStarted)
    /\ UNCHANGED <<deployerVars, seenDeploy, seenHealthy>>

\* cancel: d.deployError = err under deployMutex
CallerCancelStore(c) ==
    /\ callerPC[c] = "cancelStore"
    /\ ~DeployMutexHeld
    /\ deployError' = [deployError EXCEPT ![TheDeployment] = callerErr[c]]
    /\ callerPC' = [callerPC EXCEPT ![c] = "cancelCloseDeploy"]
    /\ UNCHANGED <<deployerVars, callerErr, lastCall, winners, losers, seenDeploy,
                   seenHealthy, status, deployChanClosed, healthyChanClosed,
                   healthyError, adapterVars>>

\* cancel: close(d.deployChan)
CallerCloseDeployChan(c) ==
    /\ callerPC[c] = "cancelCloseDeploy"
    /\ closeChan(deployChanClosed, c, "cancelCloseHealthy")
    /\ UNCHANGED <<deployerVars, callerErr, lastCall, winners, losers, seenDeploy,
                   seenHealthy, status, healthyChanClosed, deployError, healthyError,
                   adapterVars>>

\* cancel: close(d.healthyChan) and return nil
CallerCloseHealthyChan(c) ==
    /\ callerPC[c] = "cancelCloseHealthy"
    /\ closeChan(healthyChanClosed, c, "idle")
    /\ callerErr' = [callerErr EXCEPT ![c] = Nil]
    /\ UNCHANGED <<deployerVars, lastCall, winners, losers, seenDeploy, seenHealthy,
                   status, deployChanClosed, deployError, healthyError, adapterVars>>

\* WaitUntilDeployed: <-d.deployChan returns once the channel is closed
CallerWaitUntilDeployed(c) ==
    /\ callerPC[c] = "idle"
    /\ status[TheDeployment] # "NotReady"
    /\ ~ReadyInProgress
    /\ deployChanClosed[TheDeployment]
    /\ callerPC' = [callerPC EXCEPT ![c] = "readDeployError"]
    /\ UNCHANGED <<deployerVars, callerErr, lastCall, winners, losers, seenDeploy,
                   seenHealthy, nodeVars, adapterVars>>

\* WaitUntilDeployed: d.deployError is read under deployMutex and returned
CallerReadDeployError(c) ==
    /\ callerPC[c] = "readDeployError"
    /\ ~DeployMutexHeld
    /\ callerErr' = [callerErr EXCEPT ![c] = deployError[TheDeployment]]
    /\ seenDeploy' = seenDeploy \cup {deployError[TheDeployment]}
    /\ callerPC' = [callerPC EXCEPT ![c] = "idle"]
    /\ UNCHANGED <<deployerVars, lastCall, winners, losers, seenHealthy, nodeVars,
                   adapterVars>>

\* WaitUntilHealthy: <-d.healthyChan returns once the channel is closed
CallerWaitUntilHealthy(c) ==
    /\ callerPC[c] = "idle"
    /\ status[TheDeployment] # "NotReady"
    /\ ~ReadyInProgress
    /\ healthyChanClosed[TheDeployment]
    /\ callerPC' = [callerPC EXCEPT ![c] = "readHealthyError"]
    /\ UNCHANGED <<deployerVars, callerErr, lastCall, winners, losers, seenDeploy,
                   seenHealthy, nodeVars, adapterVars>>

\* WaitUntilHealthy: d.healthyError is read under healthyMutex and returned
CallerReadHealthyError(c) ==
    /\ callerPC[c] = "readHealthyError"
    /\ ~HealthyMutexHeld
    /\ callerErr' = [callerErr EXCEPT ![c] = healthyError[TheDeployment]]
    /\ seenHealthy' = seenHealthy \cup {healthyError[TheDeployment]}
    /\ callerPC' = [callerPC EXCEPT ![c] = "idle"]
    /\ UNCHANGED <<deployerVars, lastCall, winners, losers, seenDeploy, nodeVars,
                   adapterVars>>

NextCallers ==
    \/ \E c \in Callers : CallerReady(c)
    \/ \E c \in Callers : CallerReadyInit(c)
    \/ \E c \in Callers : CallerDeploy(c)
    \/ \E c \in Callers : CallerDeployLock(c)
    \/ \E c \in Callers : CallerDeployPhase(c)
    \/ \E c \in Callers : CallerDeployClose(c)
    \/ \E c \in Callers : CallerAfterDeployPhase(c)
    \/ \E c \in Callers : CallerHealthLock(c)
    \/ \E c \in Callers : CallerHealthPhase(c)
    \/ \E c \in Callers : CallerHealthClose(c)
    \/ \E c \in Callers : CallerAfterHealthPhase(c)
    \/ \E c \in Callers : CallerCancel(c)
    \/ \E c \in Callers : CallerCancelStore(c)
    \/ \E c \in Callers : CallerCloseDeployChan(c)
    \/ \E c \in Callers : CallerCloseHealthyChan(c)
    \/ \E c \in Callers : CallerWaitUntilDeployed(c)
    \/ \E c \in Callers : CallerReadDeployError(c)
    \/ \E c \in Callers : CallerWaitUntilHealthy(c)
    \/ \E c \in Callers : CallerReadHealthyError(c)

CallersSpec == InitCallers /\ [][NextCallers]_vars

\* =================================================================
\* Properties of the executor
\* =================================================================
Returned == mainPC = "returned"

\* no adapter call has failed so far
NoFailure ==
    \A v \in Nodes : deployResult[v] # "err" /\ healthResult[v] # "err"

\* a depends on b, directly or through other nodes
RECURSIVE Reaches(_, _)
Reaches(a, b) ==
    \/ HasEdge(graph, a, b)
    \/ \E k \in Nodes : k > b /\ k < a /\ HasEdge(graph, a, k) /\ Reaches(k, b)

Has(log, type) == \E i \in DOMAIN log : log[i].Type = type

\* a dependency of a has released a signal that a waits for with an error
DependencyFailed(a) ==
    \E b \in Nodes :
        /\ HasEdge(graph, a, b)
        /\ \/ deployChanClosed[b] /\ deployError[b] # Nil
           \/ graph.cost[<<a, b>>] = 1 /\ healthyChanClosed[b] /\ healthyError[b] # Nil

InFlight == {v \in Nodes : status[v] \in {"Deploying", "WaitingUntilHealthy"}}

\* C1: in an execution without failure, for every edge a -> b the adapter's
\* Deploy for a is called only after the adapter's Deploy for b has returned,
\* and for an edge of cost 1 only after the adapter's WaitUntilHealthy for b
\* has returned as well, for every worker count.
C1_DependencyBeforeDependent ==
    NoFailure =>
        \A a, b \in Nodes :
            HasEdge(graph, a, b) /\ deployCalls[a] > 0 =>
                /\ deployResult[b] = "ok"
                /\ graph.cost[<<a, b>>] = 1 => healthResult[b] = "ok"

C1_Witness ==
    /\ NoFailure
    /\ maxDeploy > 1
    /\ \E a, b, c \in Nodes :
           /\ HasEdge(graph, a, b) /\ graph.cost[<<a, b>>] = 1
           /\ HasEdge(graph, c, b) /\ graph.cost[<<c, b>>] = 0
           /\ deployCalls[a] > 0
           /\ deployCalls[c] > 0

\* C2: a node with a failed dependency (the dependency's DeployDone carries
\* an error, or its HealthyDone does on a wait_for_healthy edge) goes from
\* Ready to Canceled: the adapter's Deploy and WaitUntilHealthy are never
\* called for it, and once its worker is through with it, it is Canceled.
C2_FailedDependencyCancels ==
    \A a \in Nodes :
        DependencyFailed(a) =>
            /\ deployCalls[a] = 0
            /\ healthCalls[a] = 0
            /\ status[a] \in {"Ready", "Canceled"}
            /\ counted[a] # "none" => status[a] = "Canceled" /\ counted[a] = "failed"

C2_Witness ==
    \E a \in Nodes :
        /\ DependencyFailed(a)
        /\ status[a] = "Canceled"
        /\ counted[a] = "failed"
        /\ deployCalls[a] = 0

\* C3 as stated: once a node's deploy phase has failed, its HealthyDone is
\* released and reveals the deploy error.
C3_HealthyDoneReleasedOnDeployError ==
    \A v \in Nodes :
        status[v] = "DeployError" =>
            healthyChanClosed[v] /\ WaitUntilHealthy(v) = WaitUntilDeployed(v)

\* C3 amended: once a node's deploy phase has failed, its DeployDone is
\* released and reveals the deploy error, while its HealthyDone is never
\* released and no health error is stored.
C3_OnlyDeployDoneReleasedOnDeployError ==
    \A v \in Nodes :
        deployResult[v] = "err" =>
            /\ deployChanClosed[v]
            /\ WaitUntilDeployed(v) =
                   Wrap("failed to deploy to framework", v, AdapterError(v))
            /\ ~healthyChanClosed[v]
            /\ healthyError[v] = Nil

C3_Witness ==
    \E v \in Nodes :
        /\ Returned
        /\ status[v] = "DeployError"
        /\ deployChanClosed[v]
        /\ ~healthyChanClosed[v]

\* C4: after a successful cancel(err) both signals are released and both
\* WaitUntilDeployed and WaitUntilHealthy return the non-nil err.
C4_CancelReleasesBothWithError ==
    \A v \in Nodes :
        status[v] = "Canceled" =>
            /\ deployChanClosed[v]
            /\ healthyChanClosed[v]
            /\ WaitUntilDeployed(v) # Nil
            /\ WaitUntilHealthy(v) = WaitUntilDeployed(v)

\* C5: when the adapter's Deploy fails for b, b is counted as failed and gets
\* a DeploymentFailure event, every node that depends on b directly or
\* indirectly is never deployed, is counted as failed and gets a
\* DependencyFailure event, and Deploy returns an error.
C5_FailurePropagates ==
    \A b \in Nodes :
        deployResult[b] = "err" =>
            /\ \A a \in Nodes : Reaches(a, b) => deployCalls[a] = 0
            /\ Returned =>
                /\ result # Nil
                /\ counted[b] = "failed"
                /\ ~eventsChanNil => Has(events[b], "DeploymentFailure")
                /\ \A a \in Nodes :
                       Reaches(a, b) =>
                           /\ counted[a] = "failed"
                           /\ ~eventsChanNil => Has(events[a], "DependencyFailure")
                /\ stats.FailedDeployments >=
                       Cardinality({b} \cup {a \in Nodes : Reaches(a, b)})

C5_Witness ==
    /\ Returned
    /\ ~eventsChanNil
    /\ \E a, k, b \in Nodes :
           /\ HasEdge(graph, a, k)
           /\ HasEdge(graph, k, b)
           /\ ~HasEdge(graph, a, b)
           /\ deployResult[b] = "err"
           /\ Has(events[a], "DependencyFailure")
           /\ stats.FailedDeployments = 3

\* C6: when the adapter's Deploy succeeds for b and its WaitUntilHealthy
\* fails, a dependent with a cost-1 edge to b is never deployed and is
\* canceled (with the dependency-not-healthy error when b is its only
\* dependency), while a dependent whose dependencies are all satisfied, b
\* among them by a cost-0 edge, is deployed.
C6_HealthFailureOnlyStopsHealthWaiters ==
    \A a, b \in Nodes :
        HasEdge(graph, a, b) /\ deployResult[b] = "ok" /\ healthResult[b] = "err" =>
            /\ graph.cost[<<a, b>>] = 1 =>
                /\ deployCalls[a] = 0
                /\ counted[a] # "none" =>
                    /\ status[a] = "Canceled"
                    /\ Dependencies(graph, a) = {[node |-> b, WaitForHealthy |-> TRUE]} =>
                           deployError[a] =
                               Wrap("dependency failed to become healthy", b,
                                    healthyError[b])
            /\ /\ graph.cost[<<a, b>>] = 0
               /\ Returned
               /\ \A k \in Nodes :
                      HasEdge(graph, a, k) =>
                          /\ deployResult[k] = "ok"
                          /\ graph.cost[<<a, k>>] = 1 => healthResult[k] = "ok"
               => deployCalls[a] = 1

C6_Witness ==
    /\ Returned
    /\ \E a, b, c \in Nodes :
           /\ HasEdge(graph, a, b) /\ graph.cost[<<a, b>>] = 1
           /\ HasEdge(graph, c, b) /\ graph.cost[<<c, b>>] = 0
           /\ deployResult[b] = "ok" /\ healthResult[b] = "err"
           /\ deployCalls[c] = 1
           /\ deployCalls[a] = 0
           /\ status[a] = "Canceled"

\* C7: when Deploy has returned, SuccessfulDeployments + FailedDeployments
\* = TotalDeployments = the number of vertices.
C7_CountsAddUp ==
    Returned =>
        /\ stats.TotalDeployments = graph.n
        /\ stats.SuccessfulDeployments + stats.FailedDeployments
               = stats.TotalDeployments

C7_Witness ==
    /\ Returned
    /\ maxDeploy > 1
    /\ stats.SuccessfulDeployments > 0
    /\ stats.FailedDeployments > 1

\* C8: Deploy returns nil exactly when no node failed; otherwise it returns
\* the first error offered to the error slot, which later errors never
\* replace.
C8_FirstErrorReturned ==
    /\ ~Returned /\ firstError # Nil => errorsChan = <<firstError>>
    /\ Returned =>
        /\ result = firstError
        /\ result = Nil <=> stats.FailedDeployments = 0

C8_Witness ==
    /\ Returned
    /\ stats.FailedDeployments > 1
    /\ result = firstError
    /\ result # Nil

\* C9: Deploy eventually returns, for every DAG and every worker count.
C9_DeployReturns == <>Returned

C9_Witness ==
    /\ Returned
    /\ maxDeploy = 1
    /\ graph.n = MaxNodes
    /\ graph.cost # <<>>

\* C10: never more than maxDeploy nodes are Deploying or WaitingUntilHealthy.
C10_AtMostMaxDeployInFlight == Cardinality(InFlight) <= maxDeploy

C10_Witness ==
    /\ maxDeploy < graph.n
    /\ Cardinality(InFlight) = maxDeploy
    /\ Cardinality({v \in Nodes : status[v] = "Deploying"}) = 2

\* C11: the adapter's Deploy is called at most once per node, its
\* WaitUntilHealthy at most once per node and only after that node's Deploy
\* returned success; when Deploy has returned from a run without failures
\* each was called exactly once per node and every node was reported
\* successful.
C11_AdapterCalledOncePerNode ==
    /\ \A v \in Nodes :
           /\ deployCalls[v] <= 1
           /\ healthCalls[v] <= 1
           /\ healthCalls[v] > 0 => deployResult[v] = "ok"
    /\ (Returned /\ NoFailure) =>
           \A v \in Nodes :
               /\ deployCalls[v] = 1
               /\ healthCalls[v] = 1
               /\ counted[v] = "successful"
               /\ ~eventsChanNil => Has(events[v], "DeploymentSuccess")

C11_Witness ==
    /\ Returned
    /\ NoFailure
    /\ graph.n = 1
    /\ ~eventsChanNil
    /\ deployCalls[1] = 1
    /\ healthCalls[1] = 1
    /\ Has(events[1], "DeploymentSuccess")

\* C12: on a graph with a dependency cycle Deploy makes no adapter call,
\* hands no node to a worker and emits no event, it returns a non-nil error
\* with the events channel closed, and every spawned worker exits.
C12_CycleRefused ==
    /\ [](HasCycle(graph) =>
             /\ \A v \in Nodes :
                    /\ deployCalls[v] = 0
                    /\ healthCalls[v] = 0
                    /\ events[v] = <<>>
                    /\ status[v] = "NotReady"
             /\ \A w \in Workers : deployment[w] = 0
             /\ next = 1
             /\ Returned => /\ result # Nil
                            /\ eventsChanNil \/ eventsChanClosed)
    /\ (HasCycle(graph) ~>
            /\ Returned
            /\ \A w \in Workers : workerPC[w] = IF w \in Spawned(maxDeploy)
                                                  THEN "exited" ELSE "unused")

C12_Witness ==
    /\ HasCycle(graph)
    /\ graph.n = 2
    /\ Returned
    /\ result = Wrap("resolving deployment order", 0, ErrCycles)
    /\ eventsChanClosed
    /\ maxDeploy = 2
    /\ \A w \in Workers : workerPC[w] = "exited"

\* =================================================================
\* Properties of model.Graph
\* =================================================================
\* the position of a ref in a list of refs
PositionIn(refs, ref) == CHOOSE p \in DOMAIN refs : refs[p] = ref

\* C13: on a graph without a cycle DeployOrder returns every deployment
\* exactly once, each after all the deployments it has an edge to; on a
\* graph with a cycle it returns an error.
C13_DeployOrderTopological ==
    (answer.op = "DeployOrder" /\ ~answer.panic) =>
        LET raw == modelGraph.rawGraph
            refs == modelGraph.deployments
        IN  IF HasCycle(raw)
            THEN answer.err # Nil /\ answer.value = <<>>
            ELSE /\ answer.err = Nil
                 /\ Len(answer.value) = Len(refs)
                 /\ Range(answer.value) = Range(refs)
                 /\ \A i, k \in 1..raw.n :
                        HasEdge(raw, i, k) =>
                            PositionIn(answer.value, refs[k])
                                < PositionIn(answer.value, refs[i])

C13_Witness ==
    /\ answer.op = "DeployOrder"
    /\ answer.err = Nil
    /\ modelGraph.rawGraph.n = 3
    /\ HasEdge(modelGraph.rawGraph, 1, 3)
    /\ HasEdge(modelGraph.rawGraph, 3, 2)
    /\ answer.value = <<RefAt(2), RefAt(3), RefAt(1)>>

\* v and w are distinct vertices on a common cycle
OnCommonCycle(raw, v, w) ==
    v # w /\ Path(raw, v, w, raw.n) /\ Path(raw, w, v, raw.n)

\* the vertex a ref of the built Graph stands for
VertexOf(G, ref) == CHOOSE v \in DOMAIN G.deployments : G.deployments[v] = ref

\* C14: Cycles returns, for every set of two or more vertices that are
\* mutually reachable, exactly one component holding exactly the refs of
\* those vertices, each once; it returns nothing else, so no vertex outside
\* such a set is listed.
C14_CyclesAreStrongComponents ==
    (answer.op = "Cycles" /\ ~answer.panic) =>
        LET raw == modelGraph.rawGraph
            refs == modelGraph.deployments
            scc(v) == {v} \cup {w \in 1..raw.n : OnCommonCycle(raw, v, w)}
            listed(i) == {VertexOf(modelGraph, answer.value[i][j]) :
                             j \in DOMAIN answer.value[i]}
        IN  /\ \A v \in 1..raw.n :
                   Cardinality(scc(v)) >= 2 =>
                       Cardinality({i \in DOMAIN answer.value : listed(i) = scc(v)}) = 1
            /\ \A i \in DOMAIN answer.value :
                   /\ Len(answer.value[i]) = Cardinality(listed(i))
                   /\ Cardinality(listed(i)) >= 2
                   /\ \A v \in listed(i) : listed(i) = scc(v)

C14_Witness ==
    /\ answer.op = "Cycles"
    /\ modelGraph.rawGraph.n = 3
    /\ DOMAIN modelGraph.rawGraph.cost = {<<1, 2>>, <<2, 1>>, <<3, 1>>}
    /\ answer.value = <<<<RefAt(1), RefAt(2)>>>>

\* C15: Dependencies(ref) returns the outgoing neighbours of ref, each once,
\* with WaitForHealthy set exactly when the cost of the edge is not 0; for a
\* ref that is not in the graph it returns an error and no dependency.
C15_DependenciesAreNeighbours ==
    answer.op = "Dependencies" =>
        LET raw == modelGraph.rawGraph
            refs == modelGraph.deployments
        IN  IF answer.ref \notin Range(refs)
            THEN answer.err # Nil /\ answer.value = <<>>
            ELSE LET v == VertexOf(modelGraph, answer.ref) IN
                 /\ answer.err = Nil
                 /\ Len(answer.value) = Cardinality(Neighbours(raw, v))
                 /\ {VertexOf(modelGraph, Ref(answer.value[i])) :
                        i \in DOMAIN answer.value} = Neighbours(raw, v)
                 /\ \A i \in DOMAIN answer.value :
                        answer.value[i].WaitForHealthy =
                            (raw.cost[<<v, VertexOf(modelGraph, Ref(answer.value[i]))>>] # 0)

C15_Witness ==
    /\ answer.op = "Dependencies"
    /\ answer.ref = RefAt(1)
    /\ answer.value =
           <<[Type |-> RefAt(3).Type, Name |-> RefAt(3).Name, WaitForHealthy |-> TRUE],
             [Type |-> RefAt(2).Type, Name |-> RefAt(2).Name, WaitForHealthy |-> FALSE]>>

\* the deployments a spec resolves to
Targets(spec, deployments) == Range(findDependents(spec, deployments).dependents)

\* the wait_for_healthy flags of the specs that ask for the edge a -> b: the
\* dependency blocks of a that resolve to b and the dependency_of blocks of
\* b that resolve to a
Contributing(deployments, a, b) ==
    {deployments[a].Dependencies[j].WaitForHealthy :
        j \in {j \in DOMAIN deployments[a].Dependencies :
                  b \in Targets(deployments[a].Dependencies[j], deployments)}}
    \cup
    {deployments[b].DependencyOf[j].WaitForHealthy :
        j \in {j \in DOMAIN deployments[b].DependencyOf :
                  a \in Targets(deployments[b].DependencyOf[j], deployments)}}

\* the first Build has returned without an error for a list of deployments
BuiltFirst == buildCalls = 1 /\ Len(input) > 0 /\ buildErr = Nil

\* C16: a Build that succeeds gives each deployment the index of its
\* position and creates exactly the edges its specs ask for: i -> k for a
\* dependency block of i that resolves to k, k -> i for a dependency_of
\* block of i that resolves to k; the cost of an edge is 1 or 0 as the
\* wait_for_healthy of a spec that asks for it.
C16_BuildCreatesTheEdges ==
    BuiltFirst =>
        LET raw == modelGraph.rawGraph IN
        /\ raw.n = Len(input)
        /\ \A i \in DOMAIN input :
               /\ modelGraph.deployments[i] = Ref(input[i])
               /\ modelGraph.index[Ref(input[i])] = i
        /\ \A a, b \in DOMAIN input :
               /\ HasEdge(raw, a, b) <=> Contributing(input, a, b) # {}
               /\ HasEdge(raw, a, b) =>
                      (raw.cost[<<a, b>>] = 1) \in Contributing(input, a, b)
               /\ HasEdge(raw, a, b) => raw.cost[<<a, b>>] \in {0, 1}

C16_Witness ==
    /\ BuiltFirst
    /\ Len(input) = 2
    /\ Len(input[1].DependencyOf) = 1
    /\ Len(input[1].Dependencies) = 1
    /\ DOMAIN modelGraph.rawGraph.cost = {<<1, 1>>, <<2, 1>>}
    /\ modelGraph.rawGraph.cost[<<2, 1>>] = 1
    /\ modelGraph.rawGraph.cost[<<1, 1>>] = 0

\* C17: when several specs ask for the same edge, its cost is the largest
\* of the costs they ask for (1 if any of them has wait_for_healthy), in
\* whatever order they are inserted.
C17_CostIsMaximum ==
    BuiltFirst =>
        \A a, b \in DOMAIN input :
            HasEdge(modelGraph.rawGraph, a, b) =>
                modelGraph.rawGraph.cost[<<a, b>>] =
                    IF TRUE \in Contributing(input, a, b) THEN 1 ELSE 0

\* the dependency and dependency_of blocks of a list of deployments
SpecsOf(deployments) ==
    UNION {Range(deployments[i].Dependencies) \cup Range(deployments[i].DependencyOf) :
              i \in DOMAIN deployments}

\* the deployments that have the type and the name a spec names
NamedBy(spec, deployments) ==
    {k \in DOMAIN deployments :
        deployments[k].Type = spec.Type /\ deployments[k].Name = spec.Name}

\* the first Build has returned, for a list of deployments
TriedFirst == buildCalls = 1 /\ Len(input) > 0

\* C18: Build returns an error when a spec of the named form (a name and no
\* filter blocks) names no deployment, or more than one.
C18_NamedFormResolvesToOne ==
    TriedFirst =>
        \A spec \in SpecsOf(input) :
            (/\ spec.Name # ""
             /\ spec.Filters = <<>>
             /\ Cardinality(NamedBy(spec, input)) # 1) => buildErr # Nil

\* C19: Build returns an error when a spec has a name and filter blocks,
\* and when a spec has a name and the type "*".
C19_NameExcludesFiltersAndWildcard ==
    TriedFirst =>
        \A spec \in SpecsOf(input) :
            (spec.Name # "" /\ (spec.Filters # <<>> \/ spec.Type = "*")) =>
                buildErr # Nil

\* C20: Build is single-use: whatever the first call was given and whatever
\* it returned, a second call returns an error and leaves the graph as it
\* was.
C20_BuildIsSingleUse ==
    buildCalls = 2 => (buildErr # Nil /\ modelGraph = before)

\* C21: for an empty deployment list Build succeeds, and Cycles and
\* DeployOrder asked of that graph complete without failure (no panic, no
\* error, an empty result).
C21_EmptyListIsHarmless ==
    (buildCalls = 1 /\ input = <<>>) =>
        /\ buildErr = Nil
        /\ answer # NoAnswer /\ answer.op \in {"Cycles", "DeployOrder"} =>
               (~answer.panic /\ answer.err = Nil)

\* =================================================================
\* Properties of the resolver
\* =================================================================
\* the filter matches the deployment d, without error
Matches(filter, d) ==
    LET m == filterMatches(filter, d) IN m.err = Nil /\ m.matches

\* findDependents has returned for a spec of the filtered form
Resolved ==
    /\ call.fn = "findDependents"
    /\ returned # NotReturned
    /\ call.dependency.Name = ""

\* the deployments the filtered form selects
Selected(dependency, deployments) ==
    {i \in DOMAIN deployments :
        /\ dependency.Type \in {"*", deployments[i].Type}
        /\ \A j \in DOMAIN dependency.Filters :
               Matches(dependency.Filters[j], deployments[i])}

S2Call == [fn |-> "findDependents", dependency |-> S2Spec, deployments |-> S2Records]

\* C22: for a spec of the filtered form the resolver returns, in the order
\* of the deployments, exactly those whose type is the type of the spec (any
\* for "*") and that every filter matches; a wildcard spec with one negated
\* filter resolves to all deployments but those the filter matches without
\* the negation; in S2 these are app1 and app2, and the deploy order begins
\* with bootstrap.
C22_FilteredFormSelects ==
    (Resolved /\ returned.err = Nil) =>
        LET dependency == call.dependency
            deployments == call.deployments
            dependents == returned.dependents
        IN  /\ \A i, j \in DOMAIN dependents : i < j => dependents[i] < dependents[j]
            /\ Range(dependents) = Selected(dependency, deployments)
            /\ (/\ dependency.Type = "*"
                /\ Len(dependency.Filters) = 1
                /\ dependency.Filters[1].Negate) =>
                   Range(dependents) =
                       DOMAIN deployments \ {i \in DOMAIN deployments :
                           Matches([dependency.Filters[1] EXCEPT !.Negate = FALSE],
                                   deployments[i])}
            /\ call = S2Call =>
                   /\ dependents = <<2, 3>>
                   /\ \A r \in DeployOrderRefs(
                                   Build(ZeroGraph,
                                         WithSpec(S2Records, 1, TRUE, S2Spec)).g) :
                          /\ ~r.panic
                          /\ r.err = Nil
                          /\ r.deployments[1] = Ref(S2Records[1])

C22_Witness ==
    /\ call = S2Call
    /\ returned # NotReturned
    /\ returned.err = Nil
    /\ returned.dependents = <<2, 3>>

\* filterMatches has returned
Matched ==
    /\ call.fn = "filterMatches"
    /\ returned # NotReturned

\* C23: for a filter without glob and regexp, filterMatches tries f.values
\* if there are any and else f.value, and fails if neither is set; it
\* compares with the name for the key "name" and with the labels for the key
\* "labels", and fails for any other key; with nothing to compare it returns
\* f.negate; else it returns !f.negate if a value equals a compared string
\* and f.negate if none does.
C23_LiteralFilterSteps ==
    (Matched /\ ~call.filter.Glob /\ ~call.filter.Regexp) =>
        LET f == call.filter
            candidates == IF f.Values # <<>> THEN Range(f.Values) ELSE {f.Value}
            compared == IF f.Key = "name" THEN {call.d.Name} ELSE Range(call.d.Labels)
        IN  IF (f.Values = <<>> /\ f.Value = "") \/ f.Key \notin {"name", "labels"}
            THEN returned.err # Nil
            ELSE /\ returned.err = Nil
                 /\ returned.matches =
                        IF compared = {} THEN f.Negate
                        ELSE IF candidates \cap compared # {} THEN ~f.Negate
                        ELSE f.Negate

C23_Witness ==
    /\ Matched
    /\ call.filter = [FilterOf("labels", "", TRUE) EXCEPT !.Values = <<"b", "a">>]
    /\ call.d.Labels = <<"a">>
    /\ returned = [matches |-> FALSE, err |-> Nil]

\* the glob grammar: the tokens of a pattern from its i-th character on.  A
\* backslash before "*", "?" or "\" makes that character a literal; the
\* grammar gives no meaning to a backslash before anything else.
RECURSIVE Tokens(_, _)
Tokens(glob, i) ==
    IF i > Len(glob) THEN <<>>
    ELSE LET c == Char(glob, i) IN
         CASE c = "\\" ->
                  IF i < Len(glob) /\ Char(glob, i + 1) \in {"*", "?", "\\"}
                  THEN <<[kind |-> "literal", char |-> Char(glob, i + 1)]>>
                           \o Tokens(glob, i + 2)
                  ELSE <<[kind |-> "undefined", char |-> ""]>>
           [] c = "*" -> <<[kind |-> "sequence", char |-> ""]>> \o Tokens(glob, i + 1)
           [] c = "?" -> <<[kind |-> "single", char |-> ""]>> \o Tokens(glob, i + 1)
           [] c \in {"[", "]"} -> <<[kind |-> "bracket", char |-> c]>> \o Tokens(glob, i + 1)
           [] OTHER -> <<[kind |-> "literal", char |-> c]>> \o Tokens(glob, i + 1)

\* every backslash of the pattern is one of the three escapes
InGrammar(glob) ==
    \A k \in DOMAIN Tokens(glob, 1) : Tokens(glob, 1)[k].kind # "undefined"

HasBracket(glob) ==
    \E k \in DOMAIN Tokens(glob, 1) : Tokens(glob, 1)[k].kind = "bracket"

\* the tokens from the k-th on match s from position i to its end
RECURSIVE TokensMatch(_, _, _, _)
TokensMatch(tokens, k, s, i) ==
    IF k > Len(tokens) THEN i = Len(s) + 1
    ELSE CASE tokens[k].kind = "sequence" ->
                  \E j \in i..(Len(s) + 1) : TokensMatch(tokens, k + 1, s, j)
           [] tokens[k].kind = "single" ->
                  i <= Len(s) /\ TokensMatch(tokens, k + 1, s, i + 1)
           [] OTHER ->
                  /\ i <= Len(s)
                  /\ Char(s, i) = tokens[k].char
                  /\ TokensMatch(tokens, k + 1, s, i + 1)

GlobMatches(glob, s) == TokensMatch(Tokens(glob, 1), 1, s, 1)

\* globToRegexp has returned
Converted ==
    /\ call.fn = "globToRegexp"
    /\ returned # NotReturned

\* C25: for every pattern of the glob grammar, globToRegexp fails if the
\* pattern has an unescaped "[" or "]", and else returns an expression that
\* matches exactly the strings the pattern matches: "*" any sequence, "?" any
\* single character, "\*", "\?" and "\\" that character, with what follows
\* read as if no escape had preceded it, any other character itself, the
\* whole string from its beginning to its end.
C25_GlobGrammar ==
    (Converted /\ InGrammar(call.glob)) =>
        IF HasBracket(call.glob) THEN returned.err # Nil
        ELSE /\ returned.err = Nil
             /\ Compile(returned.re).err = Nil
             /\ \A s \in Subjects :
                    MatchString(Compile(returned.re).items, s)
                        = GlobMatches(call.glob, s)

\* the values filterMatches tries
Candidates(f) == IF f.Values # <<>> THEN Range(f.Values) ELSE {f.Value}

\* a filter as the configuration allows it: a known key, either value or
\* values, at most one of glob and regexp, and values that are patterns of
\* the glob grammar or regular expressions where the flag says so
WellFormed(f) ==
    /\ f.Key \in {"name", "labels"}
    /\ (f.Value # "") # (f.Values # <<>>)
    /\ ~(f.Glob /\ f.Regexp)
    /\ f.Glob => \A v \in Candidates(f) : InGrammar(v) /\ ~HasBracket(v)
    /\ f.Regexp => \A v \in Candidates(f) : Compile(v).err = Nil

\* C24: for every deployment d and every well-formed filter f, exactly one
\* of filterMatches(f, d) and filterMatches(negated(f), d) is true, also
\* when d has nothing to compare (no labels).
C24_NegationIsComplement ==
    (Matched /\ WellFormed(call.filter)) =>
        (returned.err = Nil /\ returned.matches)
            # Matches([call.filter EXCEPT !.Negate = ~@], call.d)

\* the edges of the state diagram of a deployment
StatusEdges ==
    {<<"NotReady", "Ready">>, <<"Ready", "Deploying">>, <<"Ready", "Canceled">>,
     <<"Deploying", "WaitingUntilHealthy">>, <<"Deploying", "DeployError">>,
     <<"WaitingUntilHealthy", "Healthy">>, <<"WaitingUntilHealthy", "HealthError">>,
     <<"Deploying", "Panic">>, <<"WaitingUntilHealthy", "Panic">>}

\* C26: the status of a node starts at NotReady and changes only along the
\* edges of the state diagram, to Panic on a panic inside deploy(); no edge
\* leaves Canceled, DeployError, HealthError, Healthy or Panic, so a status
\* of these never changes again.
C26_StatusFollowsDiagram ==
    /\ \A v \in Nodes : status[v] = "NotReady"
    /\ [][\A v \in Nodes :
              status'[v] # status[v] => <<status[v], status'[v]>> \in StatusEdges]_vars

C26_Witness ==
    /\ \E v \in Nodes : status[v] = "Panic" /\ healthResult[v] = "panic"
    /\ \E v \in Nodes : status[v] = "Canceled"
    /\ \E v \in Nodes : status[v] = "DeployError"

\* =================================================================
\* Properties of a Deployment
\* =================================================================
\* the status a method starts from
LegalFrom(op) == IF op = "ready" THEN "NotReady" ELSE "Ready"

\* C27: a call of ready() on a deployment that is not NotReady and a call of
\* deploy() or cancel() on one that is not Ready return an error and leave
\* the status, the deploy and health errors and both channels as they were,
\* without a call of the adapter; so a cancel after deploy() has started or
\* failed neither makes the status Canceled nor replaces the adapter's error.
C27_IllegalCallChangesNothing ==
    [][lastCall' # lastCall =>
          /\ lastCall'.refused = (status[TheDeployment] # LegalFrom(lastCall'.op))
          /\ lastCall'.refused =>
                /\ callerErr'[lastCall'.caller] # Nil
                /\ UNCHANGED <<status, deployError, healthyError, deployChanClosed,
                               healthyChanClosed, deployCalls, healthCalls>>]_vars

C27_Witness ==
    /\ lastCall.op = "cancel"
    /\ lastCall.refused
    /\ [caller |-> lastCall.caller, op |-> "deploy"] \in winners
    /\ status[TheDeployment] = "DeployError"
    /\ deployError[TheDeployment] =
           Wrap("failed to deploy to framework", TheDeployment, AdapterError(TheDeployment))
    /\ callerErr[lastCall.caller] = ErrNotReadyOrStarted

\* C28: however calls of deploy() and cancel() on a Ready deployment
\* interleave, exactly one of them makes its transition and every other one
\* is refused; no channel is closed a second time; and all that
\* WaitUntilDeployed returns, to any caller at any time, is one outcome, and
\* so for WaitUntilHealthy.
C28_OneWinnerOneRelease ==
    /\ Cardinality(winners) <= 1
    /\ (status[TheDeployment] \notin {"NotReady", "Ready"}) = (Cardinality(winners) = 1)
    /\ \A c \in Callers : callerPC[c] # "closePanic"
    /\ Cardinality(seenDeploy) <= 1
    /\ Cardinality(seenHealthy) <= 1

C28_Witness ==
    /\ \E c1, c2 \in Callers :
           /\ winners = {[caller |-> c1, op |-> "cancel"]}
           /\ [caller |-> c2, op |-> "deploy"] \in losers
           /\ callerPC[c1] = "cancelCloseHealthy"
           /\ callerErr[c2] = deployError[TheDeployment]
    /\ seenDeploy \subseteq CancelErrors
    /\ seenDeploy # {}

\* what the deploy phase and the health phase of the deployment ended with
FinalDeployError ==
    IF deployResult[TheDeployment] = "err"
    THEN Wrap("failed to deploy to framework", TheDeployment, AdapterError(TheDeployment))
    ELSE Nil
FinalHealthyError ==
    IF healthResult[TheDeployment] = "err"
    THEN Wrap("failed to wait until framework considered deployment healthy",
              TheDeployment, AdapterError(TheDeployment))
    ELSE Nil

\* C34: once deploy() runs the deploy phase, nobody returns from
\* WaitUntilDeployed before the adapter's Deploy has returned, and whoever
\* has passed the signal reads the error the phase ended with, never the
\* nil of before the call; likewise for WaitUntilHealthy and the health
\* phase, however the goroutines interleave.
C34_ErrorPublishedBeforeSignal ==
    /\ deployCalls[TheDeployment] > 0 =>
           /\ deployChanClosed[TheDeployment] =>
                  /\ deployResult[TheDeployment] # "none"
                  /\ deployError[TheDeployment] = FinalDeployError
                  /\ ~DeployMutexHeld
           /\ \A c \in Callers : callerPC[c] = "readDeployError" =>
                  deployChanClosed[TheDeployment]
           /\ seenDeploy \subseteq {FinalDeployError}
           /\ seenDeploy # {} => deployChanClosed[TheDeployment]
    /\ healthCalls[TheDeployment] > 0 =>
           /\ healthyChanClosed[TheDeployment] =>
                  /\ healthResult[TheDeployment] # "none"
                  /\ healthyError[TheDeployment] = FinalHealthyError
                  /\ ~HealthyMutexHeld
           /\ \A c \in Callers : callerPC[c] = "readHealthyError" =>
                  healthyChanClosed[TheDeployment]
           /\ seenHealthy \subseteq {FinalHealthyError}
           /\ seenHealthy # {} => healthyChanClosed[TheDeployment]

C34_Witness ==
    /\ deployResult[TheDeployment] = "err"
    /\ seenDeploy = {FinalDeployError}
    /\ status[TheDeployment] = "Deploying"
    /\ \E c \in Callers : callerPC[c] = "deployed"

\* =================================================================
\* Properties of the events
\* =================================================================
\* the types of the events of a node, in the order they were sent
Types(log) == [i \in DOMAIN log |-> log[i].Type]

\* C29: the Enqueued event of a node is sent before the node is pushed to
\* the work channel: a worker holds a node only after its Enqueued event,
\* and in the events of every node Enqueued comes before Dequeued.
C29_EnqueuedBeforeDequeued ==
    ~eventsChanNil =>
        /\ \A v \in Nodes :
               \A j \in DOMAIN events[v] :
                   events[v][j].Type = "Dequeued" =>
                       \E i \in 1..(j - 1) : events[v][i].Type = "Enqueued"
        /\ \A w \in Workers :
               deployment[w] # 0 => Has(events[deployment[w]], "Enqueued")

C29_Witness ==
    /\ \E v \in Nodes :
           /\ Len(events[v]) >= 2
           /\ events[v][1] = [Type |-> "Enqueued", WorkerID |-> 0]
           /\ events[v][2].Type = "Dequeued"
    /\ \E v \in Nodes : events[v] = <<>>
    /\ mainPC = "emit"

\* one step of the event state diagram of a deployment
DiagramStep(q, type) ==
    CASE q = "start" /\ type = "Enqueued" -> "enqueued"
      [] q = "enqueued" /\ type = "Dequeued" -> "dequeued"
      [] q = "dequeued" /\ type = "DependenciesResolved" -> "resolved"
      [] q = "resolved" /\ type = "DependencySuccess" -> "resolved"
      [] q = "resolved" /\ type = "DependencyFailure" -> "dependencyFailed"
      [] q = "resolved" /\ type = "DeploymentStarted" -> "started"
      [] q = "dependencyFailed" /\ type = "DeploymentFailure" -> "terminal"
      [] q = "started" /\ type \in {"DeploymentSuccess", "DeploymentFailure"}
             -> "terminal"
      [] OTHER -> "off"

\* where in the diagram the events of one deployment have arrived
RECURSIVE DiagramState(_, _, _)
DiagramState(log, i, q) ==
    IF i > Len(log) THEN q
    ELSE DiagramState(log, i + 1, DiagramStep(q, log[i].Type))

\* the terminal events among the events of one deployment
Terminals(log) ==
    {i \in DOMAIN log : log[i].Type \in {"DeploymentSuccess", "DeploymentFailure"}}

\* C30: the events of every node follow the event state diagram (Enqueued,
\* Dequeued, DependenciesResolved, any number of DependencySuccess, then
\* DependencyFailure and DeploymentFailure, or DeploymentStarted and one of
\* DeploymentSuccess and DeploymentFailure); a dequeued node has no terminal
\* event while its worker holds it and exactly one once the worker let go of
\* it, so every node has exactly one when Deploy has returned; every event
\* of a node from Dequeued on carries the id of the one worker that
\* received it.
C30_EventsFollowDiagram ==
    ~eventsChanNil =>
        \A v \in Nodes :
            LET q == DiagramState(events[v], 1, "start")
                held == \E w \in Workers : deployment[w] = v
            IN  /\ q # "off"
                /\ held => q \notin {"start", "enqueued", "terminal"}
                /\ (~held /\ Has(events[v], "Dequeued")) =>
                       /\ q = "terminal"
                       /\ Cardinality(Terminals(events[v])) = 1
                /\ mainPC = "returned" => q = "terminal"
                /\ \A i, j \in 2..Len(events[v]) :
                       events[v][i].WorkerID = events[v][j].WorkerID
                /\ \A i \in 2..Len(events[v]) : events[v][i].WorkerID \in Workers
                /\ \A w \in Workers :
                       deployment[w] = v => events[v][2].WorkerID = w

C30_Witness ==
    /\ mainPC = "returned"
    /\ \E a, b, c \in Nodes :
           /\ Types(events[a]) = <<"Enqueued", "Dequeued", "DependenciesResolved",
                                   "DeploymentStarted", "DeploymentFailure">>
           /\ Types(events[b]) = <<"Enqueued", "Dequeued", "DependenciesResolved",
                                   "DependencySuccess", "DependencyFailure",
                                   "DeploymentFailure">>
           /\ Types(events[c]) = <<"Enqueued", "Dequeued", "DependenciesResolved",
                                   "DeploymentStarted", "DeploymentSuccess">>
           /\ events[a][2].WorkerID # events[c][2].WorkerID

\* the positions of Deploy after its deferred calls have run
Over == {"returned", "panicked"}

\* C31: Deploy closes the events channel exactly once, as its last step, on
\* normal completion, on the early return after a DeployOrder error and
\* when DeployOrder panics: the channel is closed by the step that ends
\* Deploy and by no other, it is open when that step closes it, and once it
\* is closed no event is sent on it and Deploy takes no further step.
C31_EventsChanClosedOnce ==
    [][/\ eventsChanClosed =>
              /\ events' = events
              /\ eventsChanClosed'
              /\ mainPC' = mainPC
       /\ (~eventsChanClosed /\ eventsChanClosed') =>
              (mainPC \notin Over /\ mainPC' \in Over)
       /\ (mainPC \notin Over /\ mainPC' \in Over) =>
              (~eventsChanClosed /\ eventsChanClosed' = ~eventsChanNil)]_vars

C31_Witness ==
    /\ eventsChanClosed
    /\ mainPC = "returned"
    /\ graph.n = 3
    /\ \A v \in Nodes : Has(events[v], "DeploymentSuccess")
    /\ \E v \in Nodes : events[v][2].WorkerID = 2

\* =================================================================
\* Properties of the diamond
\* =================================================================
\* the vertices of the diamond A -> B, A -> C, B -> D, C -> D
Diamond == [A |-> 4, B |-> 2, C |-> 3, D |-> 1]

\* the deploy phase of v has completed: the adapter's Deploy has returned
DeployPhaseComplete(v) == deployResult[v] # "none"

\* the node's adapter Deploy call has been made
DeployPhaseStarted(v) == deployCalls[v] > 0

\* what a dependent waits for on the edge a -> b: the deploy phase of b has
\* succeeded and, on a wait_for_healthy edge, its health phase too
Awaited(a, b) ==
    /\ deployResult[b] = "ok"
    /\ WaitForHealthy(graph.cost[<<a, b>>]) => healthResult[b] = "ok"

\* C32, as stated: in the diamond with the edges A -> B, A -> C, B -> D and
\* C -> D, D starts only after both B and C have completed.
C32_DStartsAfterBAndC ==
    DeployPhaseStarted(Diamond.D) =>
        DeployPhaseComplete(Diamond.B) /\ DeployPhaseComplete(Diamond.C)

\* C32, amended: the node that starts only after both B and C have
\* completed is A, the node with the edges to B and to C; B and C start
\* only after D has completed, and D waits for nothing.
C32_AStartsAfterBAndC ==
    /\ DeployPhaseStarted(Diamond.A) =>
           Awaited(Diamond.A, Diamond.B) /\ Awaited(Diamond.A, Diamond.C)
    /\ DeployPhaseStarted(Diamond.B) => Awaited(Diamond.B, Diamond.D)
    /\ DeployPhaseStarted(Diamond.C) => Awaited(Diamond.C, Diamond.D)

\* B and C are in their deploy phase at the same time
C32_Witness ==
    /\ maxDeploy >= 2
    /\ status[Diamond.B] = "Deploying" /\ deployResult[Diamond.B] = "none"
    /\ status[Diamond.C] = "Deploying" /\ deployResult[Diamond.C] = "none"
    /\ deployCalls[Diamond.B] = 1 /\ deployCalls[Diamond.C] = 1
    /\ deployment[1] # deployment[2]

\* =================================================================
\* Properties of a panic of the adapter
\* =================================================================
\* the adapter's Deploy or WaitUntilHealthy panicked for v
Panicked(v) == deployResult[v] = "panic" \/ healthResult[v] = "panic"

\* C33: when the adapter's Deploy or WaitUntilHealthy panics for a node,
\* the panic unwinds deploy(), whose deferred function sets the status of
\* the node to Panic and panics again; no worker contains it: the process
\* ends with the node in Panic, the node is counted neither as failed nor
\* as successful, no terminal event is sent for it and Deploy does not
\* return.  A node is in Panic for no other reason.  (When the adapter
\* panics for two nodes at once, the panic that leaves its goroutine first
\* ends the process while the other is still unwinding.)
C33_PanicIsReraised ==
    \A v \in Nodes :
        /\ Panicked(v) =>
               \/ /\ \E w \in Workers : workerPC[w] = "panicking" /\ deployment[w] = v
                  /\ status[v] \in {"Deploying", "WaitingUntilHealthy"}
               \/ /\ status[v] = "Panic"
                  /\ mainPC = "crashed"
                  /\ \A w \in Workers : workerPC[w] \in {"crashed", "unused"}
                  /\ counted[v] = "none"
                  /\ Terminals(events[v]) = {}
               \/ /\ status[v] \in {"Deploying", "WaitingUntilHealthy"}
                  /\ mainPC = "crashed"
                  /\ \E u \in Nodes \ {v} : status[u] = "Panic"
                  /\ counted[v] = "none"
                  /\ Terminals(events[v]) = {}
        /\ status[v] = "Panic" => Panicked(v)
        /\ mainPC = "crashed" => \E u \in Nodes : status[u] = "Panic"

C33_Witness ==
    /\ mainPC = "crashed"
    /\ \E v \in Nodes : status[v] = "Panic" /\ healthResult[v] = "panic"
    /\ \E v \in Nodes : status[v] = "Healthy"
    /\ \E w \in Workers : workerPC[w] = "crashed" /\ deployment[w] = 0

\* =================================================================
\* Properties of the deployments when Deploy has returned
\* =================================================================
\* the statuses no step leaves
TerminalStatuses == {"Canceled", "DeployError", "HealthError", "Healthy"}

\* C35: when Deploy has returned from a DAG, every node is Canceled, in
\* DeployError, in HealthError or Healthy, and the deployChan of every node
\* is closed.
C35_AllTerminalOnReturn ==
    mainPC = "returned" =>
        \A v \in Nodes :
            /\ status[v] \in TerminalStatuses
            /\ deployChanClosed[v]

C35_Witness ==
    /\ mainPC = "returned"
    /\ \E a, b, c \in Nodes :
           /\ status[a] = "Healthy"
           /\ status[b] = "HealthError"
           /\ status[c] = "Canceled"
    /\ \A v \in Nodes : deployChanClosed[v]

\* =================================================================
\* Properties of the cycle report and the deploy order together
\* =================================================================
\* Cycles reports a cycle on the built graph; DeployOrder refuses it
CyclesReported == \A r \in Cycles(modelGraph) : r.cycles # <<>>
OrderRefused == \A r \in DeployOrderRefs(modelGraph) : r.err # Nil

\* C36: on every built graph, those with an edge from a vertex to itself
\* included, DeployOrder returns an error exactly when Cycles returns a list
\* that is not empty.
C36_CyclesAgreeWithDeployOrder ==
    /\ (answer.op = "DeployOrder" /\ ~answer.panic) =>
           ((answer.err # Nil) <=> CyclesReported)
    /\ (answer.op = "Cycles" /\ ~answer.panic) =>
           ((answer.value # <<>>) <=> OrderRefused)

\* =================================================================
\* Properties of what the signals reveal
\* =================================================================
\* DeployDone of v reveals a nil error; HealthyDone of v reveals a nil error
DeployDoneRevealsNil(v) == deployChanClosed[v] /\ WaitUntilDeployed(v) = Nil
HealthyDoneRevealsNil(v) == healthyChanClosed[v] /\ WaitUntilHealthy(v) = Nil

\* C37: DeployDone of a node reveals a nil error only if the adapter's
\* Deploy returned nil for it, HealthyDone only if the adapter's
\* WaitUntilHealthy returned nil for it, also when the adapter panics and
\* when the node is canceled; and no node's deploy phase starts while the
\* adapter call it waits for on one of its dependencies has not succeeded.
C37_NilOnlyAfterSuccess ==
    /\ \A v \in Nodes :
           /\ DeployDoneRevealsNil(v) => deployResult[v] = "ok"
           /\ HealthyDoneRevealsNil(v) => healthResult[v] = "ok"
    /\ \A a, b \in Nodes :
           (HasEdge(graph, a, b) /\ DeployPhaseStarted(a)) => Awaited(a, b)

\* =================================================================
\* Properties of the error Deploy returns
\* =================================================================
\* the adapter calls that returned an error
AdapterFailures ==
    {v \in Nodes : deployResult[v] = "err" \/ healthResult[v] = "err"}

\* the error workerMain offers for a node whose adapter Deploy failed
RootCause(b) ==
    Wrap("deploying", b, Wrap("failed to deploy to framework", b, AdapterError(b)))

\* C38: when the adapter's Deploy failed for one node and every other
\* failure of the run is the cancelation of one of its dependents, Deploy
\* returns the error of that node and not the dependency-failure error of a
\* dependent, however the workers interleave.
C38_RootCauseReturned ==
    \A b \in Nodes :
        (Returned /\ AdapterFailures = {b} /\ deployResult[b] = "err") =>
            result = RootCause(b)

\* =================================================================
\* Properties of the concurrency bound
\* =================================================================
\* C39: whatever the value of maxDeploy, 0 and the negative ones included,
\* a Deploy that is started on a DAG returns.
C39_DeployReturnsForEveryBound == (mainPC = "start") ~> (mainPC = "returned")

\* =================================================================
\* Properties of run
\* =================================================================
\* C40: when Build returns an error, run returns an error and neither the
\* dry-run listing nor a deployment is performed on the graph Build left
\* behind.
C40_BuildErrorEndsRun ==
    (answer.op = "run" /\ buildErr # Nil) =>
        /\ ~answer.panic
        /\ answer.err # Nil
        /\ answer.value.performed = "none"

====
